---- MODULE Spec2Model ----
(***************************************************************************)
(* Carbon estimation pipeline of the blue-carbon AI/ML service:            *)
(*   models/carbon_estimation_model.py  CarbonEstimationModel              *)
(*   services/model_service.py          ModelService                       *)
(*   models/vegetation_indices.py       VegetationIndicesCalculator        *)
(*   api/routes/carbon_estimation.py    estimate and batch routes          *)
(*   services/gee_service.py            get_historical_data                *)
(*                                                                         *)
(* Numbers are fixed point: feature values and carbon estimates are in     *)
(* tenths (25.0 is 250), confidences are in thousandths (0.95 is 950).     *)
(* The fitted network and the fitted scaler come from keras and sklearn;   *)
(* they are represented by the parameters a training run leaves in them    *)
(* (run, fitted, weights / column means), and the result of a fit is a     *)
(* nondeterministic choice among FitWeights.                               *)
(*                                                                         *)
(* Six specifications share the variables: ModelSpec drives one            *)
(* CarbonEstimationModel through its methods, Spec runs the coroutines of  *)
(* ModelService on the event loop, CallSpec makes single calls of the      *)
(* feature assembler and of the analysis functions on enumerated inputs,   *)
(* IndexSpec calls the vegetation index functions on band values,          *)
(* BatchSpec runs the batch estimation route and HistorySpec the period    *)
(* loop of get_historical_data.                                            *)
(***************************************************************************)
EXTENDS Integers, Sequences, FiniteSets, TLC

VARIABLES
    carbon_model,   \* ModelService.carbon_model / the CarbonEstimationModel under test
    model_loaded,   \* ModelService.model_loaded
    last_update,    \* ModelService.last_update (0 is None)
    disk,           \* the three artifact parts stored under model_path
    clock,          \* datetime.utcnow(), a logical time
    tasks,          \* the coroutines of the event loop, one per request slot
    lastOp,         \* the call that returned last: its outcome and the state it started from
    saved,          \* the object state written by the last complete save_model
    completed       \* the object has completed a train or a load_model

vars == <<carbon_model, model_loaded, last_update, disk, clock, tasks, lastOp, saved, completed>>

----------------------------------------------------------------------------
(* Bounds of the model *)

MaxClock == 3       \* coroutines started in one behaviour of Spec
NSlots == 2         \* requests the event loop holds at once

Slots == 1..NSlots

----------------------------------------------------------------------------
(* Python values *)

\* None where a number is expected; no numeric input takes this value.  In a
\* numpy float array it is NaN (None converts to nan), and it absorbs arithmetic.
NoneVal == -1000000
NaN == NoneVal

RECURSIVE SumSeq(_)
SumSeq(s) == IF s = <<>> THEN 0 ELSE Head(s) + SumSeq(Tail(s))

Abs(x) == IF x < 0 THEN -x ELSE x
Min(a, b) == IF a < b THEN a ELSE b
Max(a, b) == IF a > b THEN a ELSE b

\* dict.get(key, default) on a mapping given as a TLA+ function
DictGet(d, key, default) == IF key \in DOMAIN d THEN d[key] ELSE default

EmptyDict == [k \in {} |-> 0]

----------------------------------------------------------------------------
(* CarbonEstimationModel.__init__ *)

feature_columns_default ==
    << "ndvi", "evi", "savi", "ndwi",
       "temperature", "humidity", "soil_moisture",
       "salinity", "ph", "organic_matter",
       "biomass_density", "canopy_height",
       "area_hectares", "ecosystem_type_encoded" >>

ecosystem_types_default ==
    [e \in {"mangrove", "saltmarsh", "seagrass", "tidal_marsh"} |->
        CASE e = "mangrove" -> 0
          [] e = "saltmarsh" -> 1
          [] e = "seagrass" -> 2
          [] e = "tidal_marsh" -> 3]

\* self.model = None, self.scaler = None
NoNet == [set |-> FALSE, run |-> 0, fitted |-> FALSE, bias |-> 0, gain |-> 0]
NoScaler == [set |-> FALSE, run |-> 0, fitted |-> FALSE, seen |-> <<>>, sum |-> <<>>, dev |-> <<>>]

NewModel ==
    [ exists |-> TRUE,
      model |-> NoNet,
      scaler |-> NoScaler,
      feature_columns |-> feature_columns_default,
      ecosystem_types |-> ecosystem_types_default ]

\* ModelService.carbon_model = None
NoObject == [NewModel EXCEPT !.exists = FALSE]

----------------------------------------------------------------------------
(* Input mappings.  A group is absent from the data dict, None, or a dict   *)
(* of some of its fields; project_data carries ecosystem_type as a string. *)

Group(kind, d) == [kind |-> kind, d |-> d]
AbsentGroup == Group("absent", EmptyDict)
NoneGroup == Group("none", EmptyDict)
Dict(d) == Group("dict", d)

Project(kind, d, has_eco, eco) == [kind |-> kind, d |-> d, has_eco |-> has_eco, eco |-> eco]

Sample(sat, sen, fld, prj, has_y, y) ==
    [ satellite_data |-> sat, sensor_data |-> sen, field_measurements |-> fld,
      project_data |-> prj, has_carbon |-> has_y, carbon_estimate |-> y ]

\* data.get(name, {}) followed by .get(field, default): the group must be a dict
GroupOk(g) == g.kind # "none"
GroupGet(g, field, default) ==
    IF g.kind = "dict" THEN DictGet(g.d, field, default) ELSE default

\* every data.get(group, {}) of prepare_features returns something with .get
AssembleOk(data) ==
    /\ GroupOk(data.satellite_data)
    /\ GroupOk(data.sensor_data)
    /\ GroupOk(data.field_measurements)
    /\ data.project_data.kind # "none"

\* (mutant) humidity is read before temperature
prepare_features_humidity_first(m, data) ==
    LET sat == data.satellite_data
        sen == data.sensor_data
        fld == data.field_measurements
        prj == data.project_data
        ecosystem_type == IF prj.kind = "dict" /\ prj.has_eco THEN prj.eco ELSE "mangrove"
    IN  << GroupGet(sat, "ndvi", 0), GroupGet(sat, "evi", 0),
           GroupGet(sat, "savi", 0), GroupGet(sat, "ndwi", 0),
           GroupGet(sen, "humidity", 700), GroupGet(sen, "temperature", 250),
           GroupGet(sen, "soil_moisture", 5), GroupGet(sen, "salinity", 350),
           GroupGet(sen, "ph", 70), GroupGet(sen, "organic_matter", 20),
           GroupGet(fld, "biomass_density", 100), GroupGet(fld, "canopy_height", 50),
           GroupGet(Group(prj.kind, prj.d), "area_hectares", 10),
           DictGet(m.ecosystem_types, ecosystem_type, 0) >>

prepare_features(m, data) ==
    LET sat == data.satellite_data
        sen == data.sensor_data
        fld == data.field_measurements
        prj == data.project_data
        ecosystem_type == IF prj.kind = "dict" /\ prj.has_eco THEN prj.eco ELSE "mangrove"
    IN  << GroupGet(sat, "ndvi", 0), GroupGet(sat, "evi", 0),
           GroupGet(sat, "savi", 0), GroupGet(sat, "ndwi", 0),
           GroupGet(sen, "temperature", 250), GroupGet(sen, "humidity", 700),
           GroupGet(sen, "soil_moisture", 5), GroupGet(sen, "salinity", 350),
           GroupGet(sen, "ph", 70), GroupGet(sen, "organic_matter", 20),
           GroupGet(fld, "biomass_density", 100), GroupGet(fld, "canopy_height", 50),
           GroupGet(Group(prj.kind, prj.d), "area_hectares", 10),
           DictGet(m.ecosystem_types, ecosystem_type, 0) >>

----------------------------------------------------------------------------
(* Inputs the calls are tried on *)

S_full ==
    Sample(Dict([f \in {"ndvi", "evi", "savi", "ndwi"} |-> IF f = "ndvi" THEN 6 ELSE 4]),
           Dict([f \in {"temperature", "soil_moisture", "salinity"} |->
                    CASE f = "temperature" -> 300 [] f = "soil_moisture" -> 6 [] f = "salinity" -> 300]),
           Dict([f \in {"biomass_density", "canopy_height"} |-> IF f = "biomass_density" THEN 150 ELSE 80]),
           Project("dict", [f \in {"area_hectares"} |-> 500], TRUE, "seagrass"),
           TRUE, 60)

S_sparse ==
    Sample(Dict([f \in {"ndvi"} |-> 2]), AbsentGroup, Dict(EmptyDict),
           Project("dict", [f \in {"area_hectares"} |-> 5], TRUE, "saltmarsh"),
           TRUE, 80)

S_defaults ==
    Sample(AbsentGroup, AbsentGroup, AbsentGroup,
           Project("dict", EmptyDict, FALSE, ""), FALSE, 0)

S_unknown_eco ==
    Sample(Dict([f \in {"ndvi", "evi"} |-> 7]), AbsentGroup, AbsentGroup,
           Project("dict", [f \in {"area_hectares"} |-> 20], TRUE, "kelp_forest"),
           TRUE, 120)

\* sensor_data present with the value None
S_none_group ==
    Sample(Dict([f \in {"ndvi"} |-> 5]), NoneGroup, AbsentGroup,
           Project("dict", [f \in {"area_hectares"} |-> 10], TRUE, "mangrove"),
           TRUE, 120)

\* training sets: empty, one sample, two and three samples, one with a None group
Datasets ==
    << <<>>,
       << S_full >>,
       << S_full, S_sparse >>,
       << S_unknown_eco, S_defaults, S_full >>,
       << S_sparse, S_none_group >> >>

DatasetIds == 1..Len(Datasets)

\* ModelService._generate_synthetic_training_data: 4 x 250 complete samples
\* (represented by one complete sample per ecosystem type)
SyntheticSample(eco, y) ==
    Sample(Dict([f \in {"ndvi", "evi", "savi", "ndwi"} |->
                    CASE f = "ndvi" -> 6 [] f = "evi" -> 4 [] f = "savi" -> 5 [] f = "ndwi" -> 3]),
           Dict([f \in {"temperature", "humidity", "soil_moisture", "salinity", "ph", "organic_matter"} |->
                    CASE f = "temperature" -> 250 [] f = "humidity" -> 750 [] f = "soil_moisture" -> 6
                      [] f = "salinity" -> 350 [] f = "ph" -> 75 [] f = "organic_matter" -> 30]),
           Dict([f \in {"biomass_density", "canopy_height"} |-> IF f = "biomass_density" THEN 150 ELSE 80]),
           Project("dict", [f \in {"area_hectares"} |-> 500], TRUE, eco),
           TRUE, y)

generate_synthetic_training_data ==
    << SyntheticSample("mangrove", 120), SyntheticSample("saltmarsh", 80),
       SyntheticSample("seagrass", 60), SyntheticSample("tidal_marsh", 70) >>

\* inputs of predict
PredictInputs == << S_defaults, S_full, S_none_group >>
PredictIds == 1..Len(PredictInputs)

\* what a fit can leave in the network: estimates that are negative, small, large
FitWeights == { [bias |-> -30, gain |-> 1], [bias |-> 700, gain |-> 2] }

----------------------------------------------------------------------------
(* sklearn StandardScaler and the keras network *)

RECURSIVE ColValues(_, _)
\* the non-NaN values of column i of the rows X
ColValues(X, i) ==
    IF X = <<>> THEN <<>>
    ELSE IF Head(X)[i] = NaN THEN ColValues(Tail(X), i)
         ELSE <<Head(X)[i]>> \o ColValues(Tail(X), i)

\* the number of model units in 1.0 of column i: ecosystem_type_encoded (the
\* last column) holds the code itself, every other column is in tenths
ColUnit(i) == IF i = Len(feature_columns_default) THEN 1 ELSE 10

\* n_samples_seen_ of column i: the rows whose value is not NaN
ColSeen(X, i) == Len(ColValues(X, i))

\* the sum of column i; mean_ is ColSum / ColSeen
ColSum(X, i) == SumSeq(ColValues(X, i))

\* the squared deviations of column i, times ColSeen; var_ (the mean of the
\* squared deviations) is ColDev / ColSeen^2, and scale_ its square root
ColDev(X, i) ==
    LET v == ColValues(X, i)
        squares == [k \in 1..Len(v) |-> v[k] * v[k]]
    IN  Len(v) * SumSeq(squares) - SumSeq(v) * SumSeq(v)

RECURSIVE SqrtBetween(_, _, _)
\* the largest r in lo..hi with r * r <= n
SqrtBetween(n, lo, hi) ==
    IF lo >= hi THEN lo
    ELSE LET mid == (lo + hi + 1) \div 2
         IN  IF mid * mid <= n THEN SqrtBetween(n, mid, hi)
             ELSE SqrtBetween(n, lo, mid - 1)

\* the square root, rounded down
Sqrt(n) == SqrtBetween(n, 0, Min(n, 46340))

\* StandardScaler(): not fitted
UnfittedScaler(run) ==
    [set |-> TRUE, run |-> run, fitted |-> FALSE, seen |-> <<>>, sum |-> <<>>, dev |-> <<>>]

\* StandardScaler.fit on the rows X (NaN is disregarded in fit): the record
\* holds mean_ and scale_ of every column as the exact integers they are
\* quotients of
FittedScaler(run, X) ==
    [set |-> TRUE, run |-> run, fitted |-> TRUE,
     seen |-> [i \in 1..Len(feature_columns_default) |-> ColSeen(X, i)],
     sum |-> [i \in 1..Len(feature_columns_default) |-> ColSum(X, i)],
     dev |-> [i \in 1..Len(feature_columns_default) |-> ColDev(X, i)]]

\* fit_transform raises on an array that has no rows
ScalerFitOk(X) == Len(X) > 0

\* num / sqrt(den) rounded down, for den > 0
OverRoot(num, den) ==
    LET q == (num * num) \div den
        r == Sqrt(q)
    IN  IF num >= 0 THEN r
        ELSE IF r * r = q /\ (num * num) % den = 0 THEN -r ELSE -(r + 1)

\* (x - mean_) / scale_ of column i, in tenths rounded down; scale_ is 1.0
\* where the variance is zero
ScaledValue(sc, i, x) ==
    LET n == sc.seen[i]
        centred == n * x - sc.sum[i]
    IN  IF sc.dev[i] = 0 THEN (10 * centred) \div (n * ColUnit(i))
        ELSE OverRoot(10 * centred, sc.dev[i])

\* StandardScaler.transform: (x - mean_) / scale_, in tenths (NaN is
\* maintained, and a column fitted on NaN alone has NaN for its mean_)
ScalerTransform(sc, x) ==
    [i \in 1..Len(x) |->
        IF x[i] = NaN \/ sc.seen[i] = 0 THEN NaN ELSE ScaledValue(sc, i, x[i])]

\* build_model: a compiled network with initial weights, not fitted
build_model(run, w) == [set |-> TRUE, run |-> run, fitted |-> FALSE, bias |-> 0, gain |-> w.gain]

FittedNet(run, w) == [set |-> TRUE, run |-> run, fitted |-> TRUE, bias |-> w.bias, gain |-> w.gain]

\* keras model.predict: the output of the network on a scaled feature vector
NetPredict(net, xs) ==
    IF \E i \in 1..Len(xs) : xs[i] = NaN THEN NaN
    ELSE net.bias + net.gain * (SumSeq(xs) \div 10)

\* keras splits off the last validation_split (0.2) of the samples and raises
\* when either side of the split would be empty
SplitAt(n) == (n * 8) \div 10
KerasSplitOk(n) == SplitAt(n) > 0 /\ SplitAt(n) < n

----------------------------------------------------------------------------
(* CarbonEstimationModel.train *)

\* the rows prepare_features gives for the samples of a list
Rows(m, samples) == [i \in 1..Len(samples) |-> prepare_features(m, samples[i])]

AllAssemble(samples) == \A i \in 1..Len(samples) : AssembleOk(samples[i])

\* train(training_data, validation_data): the object after the call and how the
\* call ended.  has_val is "validation_data is a non-empty list"; run names this
\* call and w is what the fit leaves in the network.  The statements run in the
\* order of the source, and an exception leaves the assignments made before it.
train(m, training_data, has_val, validation_data, run, w) ==
    LET X_train == Rows(m, training_data)
        scaler_new == UnfittedScaler(run)
        scaler_fit == FittedScaler(run, X_train)
        net_new == build_model(run, w)
        net_fit == FittedNet(run, w)
    IN  IF ~AllAssemble(training_data)
        THEN \* prepare_features raises in the first loop (lines 126-131)
             [m |-> m, ok |-> FALSE, err |-> "assemble"]
        ELSE IF ~ScalerFitOk(X_train)
        THEN \* self.scaler is the new StandardScaler (138), fit_transform raises (139)
             [m |-> [m EXCEPT !.scaler = scaler_new], ok |-> FALSE, err |-> "scaler_fit"]
        ELSE IF has_val /\ ~AllAssemble(validation_data)
        THEN \* self.model is the new network (142), prepare_features raises (151)
             [m |-> [m EXCEPT !.scaler = scaler_fit, !.model = net_new],
              ok |-> FALSE, err |-> "assemble"]
        ELSE IF ~has_val /\ ~KerasSplitOk(Len(training_data))
        THEN \* model.fit raises on the validation split (180)
             [m |-> [m EXCEPT !.scaler = scaler_fit, !.model = net_new],
              ok |-> FALSE, err |-> "net_fit"]
        ELSE [m |-> [m EXCEPT !.scaler = scaler_fit, !.model = net_fit],
              ok |-> TRUE, err |-> "none"]

\* the samples whose rows reach self.scaler.fit_transform (line 139): every
\* row of X_train, that is every sample of training_data
ScalerFitSamples(training_data) ==
    { <<"training_data", i>> : i \in 1..Len(training_data) }

\* the samples the fit validates on (lines 145-183): those of validation_data
\* when it is given, otherwise the last validation_split of the rows passed to
\* model.fit, which are the rows of X_train_scaled
ValidationSamples(training_data, has_val, validation_data) ==
    IF has_val
    THEN { <<"validation_data", i>> : i \in 1..Len(validation_data) }
    ELSE { <<"training_data", i>> :
             i \in (SplitAt(Len(training_data)) + 1)..Len(training_data) }

----------------------------------------------------------------------------
(* CarbonEstimationModel.predict *)

\* (mutant) the sign of the estimate is kept
Confidence_signed(carbon_estimate) ==
    IF carbon_estimate = NaN THEN 500
    ELSE Min(950, Max(500, 1000 - carbon_estimate))

\* confidence = min(0.95, max(0.5, 1.0 - abs(carbon_estimate) * 0.01));
\* max(0.5, nan) is 0.5 in Python
Confidence(carbon_estimate) ==
    IF carbon_estimate = NaN THEN 500
    ELSE Min(950, Max(500, 1000 - Abs(carbon_estimate)))

NoResult == [carbon_estimate |-> 0, confidence |-> 0, model_run |-> 0, scaler_run |-> 0,
             model_fitted |-> FALSE]

predict(m, data) ==
    IF ~m.model.set \/ ~m.scaler.set
    THEN [ok |-> FALSE, err |-> "not_ready", result |-> NoResult]
    ELSE IF ~AssembleOk(data)
    THEN [ok |-> FALSE, err |-> "assemble", result |-> NoResult]
    ELSE IF ~m.scaler.fitted
    THEN \* scaler.transform raises NotFittedError
         [ok |-> FALSE, err |-> "scaler_not_fitted", result |-> NoResult]
    ELSE LET features_scaled == ScalerTransform(m.scaler, prepare_features(m, data))
             carbon_estimate == NetPredict(m.model, features_scaled)
         IN  [ok |-> TRUE, err |-> "none",
              result |-> [carbon_estimate |-> carbon_estimate,
                          confidence |-> Confidence(carbon_estimate),
                          model_run |-> m.model.run, scaler_run |-> m.scaler.run,
                          model_fitted |-> m.model.fitted]]

----------------------------------------------------------------------------
(* ModelService._analyze_prediction and its parts.  A quality score is in   *)
(* thousandths of a percent, rounded down (66.666... is 66666).            *)

\* (mutant) an empty dict counts as a group that was provided
Truthy_any_dict(g) == g.kind = "dict"

\* "if group:" - a non-empty dict; absent (the {} of .get), None and {} are falsy
Truthy(g) == g.kind = "dict" /\ DOMAIN g.d # {}

\* the number of "'field' in group" tests that hold
KeysPresent(g, fields) == Cardinality({f \in fields : f \in DOMAIN g.d})

SatelliteScored == {"ndvi", "evi", "savi", "ndwi"}
SensorScored == {"temperature", "soil_moisture", "salinity"}
FieldScored == {"biomass_density", "canopy_height"}

\* the groups _assess_data_quality looks at, in its order, with the sub-fields
\* it tests and the issue it appends
QualityGroups(input_data) ==
    << [g |-> input_data.satellite_data, fields |-> SatelliteScored,
        issue |-> "No satellite data provided"],
       [g |-> input_data.sensor_data, fields |-> SensorScored,
        issue |-> "No sensor data provided"],
       [g |-> input_data.field_measurements, fields |-> FieldScored,
        issue |-> "No field measurements provided"] >>

\* quality_score and max_score after the three blocks
QualityScore(input_data) ==
    LET q == QualityGroups(input_data)
    IN  SumSeq([i \in 1..3 |-> IF Truthy(q[i].g) THEN KeysPresent(q[i].g, q[i].fields) ELSE 0])

QualityMax(input_data) ==
    LET q == QualityGroups(input_data)
    IN  SumSeq([i \in 1..3 |-> IF Truthy(q[i].g) THEN Cardinality(q[i].fields) ELSE 0])

RECURSIVE QualityIssues(_)
\* issues: one append per falsy group, in the order of the blocks
QualityIssues(q) ==
    IF q = <<>> THEN <<>>
    ELSE (IF Truthy(Head(q).g) THEN <<>> ELSE << Head(q).issue >>) \o QualityIssues(Tail(q))

\* (mutant) the thresholds are inclusive
Level_inclusive(x, hi, lo) == IF x >= hi THEN "high" ELSE IF x >= lo THEN "medium" ELSE "low"

\* 'high' if x > hi else 'medium' if x > lo else 'low'
Level(x, hi, lo) == IF x > hi THEN "high" ELSE IF x > lo THEN "medium" ELSE "low"

_assess_data_quality(input_data) ==
    LET quality_score == QualityScore(input_data)
        max_score == QualityMax(input_data)
        quality_percentage ==
            IF max_score > 0 THEN (quality_score * 100000) \div max_score ELSE 0
    IN  [ score |-> quality_percentage,
          level |-> Level(quality_percentage, 80000, 60000),
          issues |-> QualityIssues(QualityGroups(input_data)) ]

RecommendData == "Consider collecting more comprehensive data to improve prediction accuracy"
RecommendConfidence == "Prediction confidence is low. Consider additional field measurements"
RecommendMangrove == "Mangrove ecosystems typically have high carbon sequestration potential"
RecommendSeagrass == "Seagrass meadows are important carbon sinks but require careful monitoring"
RecommendArea == "Small project areas may have higher uncertainty in carbon estimates"

\* input_data.get('project_data', {}).get('ecosystem_type', '')
RecommendEcosystem(prj) == IF prj.kind = "dict" /\ prj.has_eco THEN prj.eco ELSE ""

\* input_data.get('project_data', {}).get('area_hectares', 0)
RecommendAreaValue(prj) == GroupGet(Group(prj.kind, prj.d), "area_hectares", 0)

\* _generate_recommendations raises when project_data is None (None.get) and
\* when area_hectares is None (None < 1)
RecommendOk(input_data) ==
    /\ input_data.project_data.kind # "none"
    /\ RecommendAreaValue(input_data.project_data) # NoneVal

_generate_recommendations(input_data, prediction) ==
    LET data_quality == _assess_data_quality(input_data)
        ecosystem_type == RecommendEcosystem(input_data.project_data)
        area_hectares == RecommendAreaValue(input_data.project_data)
    IN  (IF data_quality.score < 60000 THEN << RecommendData >> ELSE <<>>)
        \o (IF prediction.confidence < 700 THEN << RecommendConfidence >> ELSE <<>>)
        \o (IF ecosystem_type = "mangrove" THEN << RecommendMangrove >>
            ELSE IF ecosystem_type = "seagrass" THEN << RecommendSeagrass >>
            ELSE <<>>)
        \o (IF area_hectares < 10 THEN << RecommendArea >> ELSE <<>>)

NoAnalysis == [set |-> FALSE, confidence_level |-> "low",
               data_quality |-> [score |-> 0, level |-> "low", issues |-> <<>>],
               recommendations |-> <<>>]

_analyze_prediction(input_data, prediction) ==
    [ set |-> TRUE,
      confidence_level |-> Level(prediction.confidence, 800, 600),
      data_quality |-> _assess_data_quality(input_data),
      recommendations |-> _generate_recommendations(input_data, prediction) ]

----------------------------------------------------------------------------
(* The artifact under model_path: carbon_estimation_model.h5, scaler.pkl,   *)
(* metadata.json.  A part is missing, ok or corrupt (a write that broke    *)
(* off after the file was opened for writing).                             *)

MissingH5 == [state |-> "missing", net |-> NoNet]
MissingPkl == [state |-> "missing", scaler |-> NoScaler]
MissingMeta == [state |-> "missing", doc |-> EmptyDict]

EmptyDisk == [h5 |-> MissingH5, pkl |-> MissingPkl, meta |-> MissingMeta]

\* the metadata dict of save_model, as json.dump writes it
Metadata(m, now) ==
    [ feature_columns |-> m.feature_columns,
      ecosystem_types |-> m.ecosystem_types,
      model_version |-> "1.0.0",
      created_at |-> now ]

\* where a save can break off: nowhere, before anything is written
\* (os.makedirs on the parent of path raises, or model.save raises before it
\* opens its file), or at one of the three writes, which leaves its file as it
\* was ("fail") or truncated ("corrupt")
SaveOutcomes ==
    {"ok", "nothing_written", "h5_corrupt", "pkl_fail", "pkl_corrupt", "meta_fail",
     "meta_corrupt"}

H5Written(m) == [state |-> "ok", net |-> m.model]
PklWritten(m) == [state |-> "ok", scaler |-> m.scaler]
MetaWritten(m, now) == [state |-> "ok", doc |-> Metadata(m, now)]

save_model(m, d, now, io) ==
    IF ~m.model.set \/ ~m.scaler.set
    THEN [disk |-> d, ok |-> FALSE, err |-> "not_ready"]
    ELSE CASE io = "nothing_written" ->
                \* os.makedirs(os.path.dirname(path)) raises (225), or model.save
                \* raises before it opens the file (229)
                [disk |-> d, ok |-> FALSE, err |-> "io"]
           [] io = "h5_corrupt" ->
                \* model.save breaks off (229)
                [disk |-> [d EXCEPT !.h5 = [state |-> "corrupt", net |-> NoNet]],
                 ok |-> FALSE, err |-> "io"]
           [] io = "pkl_fail" ->
                \* joblib.dump raises before it opens the file (233)
                [disk |-> [d EXCEPT !.h5 = H5Written(m)], ok |-> FALSE, err |-> "io"]
           [] io = "pkl_corrupt" ->
                \* joblib.dump breaks off (233)
                [disk |-> [d EXCEPT !.h5 = H5Written(m),
                                    !.pkl = [state |-> "corrupt", scaler |-> NoScaler]],
                 ok |-> FALSE, err |-> "io"]
           [] io = "meta_fail" ->
                \* open(metadata_path, 'w') raises (245)
                [disk |-> [d EXCEPT !.h5 = H5Written(m), !.pkl = PklWritten(m)],
                 ok |-> FALSE, err |-> "io"]
           [] io = "meta_corrupt" ->
                \* open(metadata_path, 'w') has emptied the file, json.dump or
                \* the close raises (245-246)
                [disk |-> [d EXCEPT !.h5 = H5Written(m), !.pkl = PklWritten(m),
                                    !.meta = [state |-> "corrupt", doc |-> EmptyDict]],
                 ok |-> FALSE, err |-> "io"]
           [] OTHER ->
                [disk |-> [h5 |-> H5Written(m), pkl |-> PklWritten(m),
                           meta |-> MetaWritten(m, now)],
                 ok |-> TRUE, err |-> "none"]

----------------------------------------------------------------------------
(* CarbonEstimationModel.load_model *)

\* (mutant) load_model leaves self.scaler as it is
load_model_skips_scaler(m, d) ==
    IF d.h5.state # "ok" \/ d.pkl.state # "ok" \/ d.meta.state # "ok"
    THEN [m |-> m, ok |-> FALSE, err |-> "io"]
    ELSE [m |-> [m EXCEPT !.model = d.h5.net,
                    !.feature_columns =
                        DictGet(d.meta.doc, "feature_columns", m.feature_columns),
                    !.ecosystem_types =
                        DictGet(d.meta.doc, "ecosystem_types", m.ecosystem_types)],
          ok |-> TRUE, err |-> "none"]

load_model(m, d) ==
    IF d.h5.state # "ok"
    THEN \* keras.models.load_model raises (255)
         [m |-> m, ok |-> FALSE, err |-> "io"]
    ELSE IF d.pkl.state # "ok"
    THEN \* joblib.load raises (259), self.model is already the loaded one
         [m |-> [m EXCEPT !.model = d.h5.net], ok |-> FALSE, err |-> "io"]
    ELSE IF d.meta.state # "ok"
    THEN \* open or json.load raises (264-265)
         [m |-> [m EXCEPT !.model = d.h5.net, !.scaler = d.pkl.scaler],
          ok |-> FALSE, err |-> "io"]
    ELSE [m |-> [m EXCEPT !.model = d.h5.net, !.scaler = d.pkl.scaler,
                    !.feature_columns =
                        DictGet(d.meta.doc, "feature_columns", m.feature_columns),
                    !.ecosystem_types =
                        DictGet(d.meta.doc, "ecosystem_types", m.ecosystem_types)],
          ok |-> TRUE, err |-> "none"]

\* the value None where get_model_info's dict is expected
NoInfo == [raised |-> FALSE, status |-> "none", keys |-> {},
           feature_columns |-> <<>>, ecosystem_types |-> EmptyDict]

\* (mutant) the attributes of self.model are read without the test for None
get_model_info_unguarded(m) ==
    [NoInfo EXCEPT !.raised = ~m.model.set,
                   !.status = "loaded",
                   !.keys = {"status", "input_shape", "output_shape", "total_params",
                             "feature_columns", "ecosystem_types"},
                   !.feature_columns = m.feature_columns,
                   !.ecosystem_types = m.ecosystem_types]

\* CarbonEstimationModel.get_model_info: the dict returned (its keys, its
\* status and the metadata entries); input_shape, output_shape and
\* count_params() are read from a built keras model and do not raise
get_model_info(m) ==
    IF ~m.model.set
    THEN [NoInfo EXCEPT !.status = "not_loaded", !.keys = {"status"}]
    ELSE [NoInfo EXCEPT !.status = "loaded",
                        !.keys = {"status", "input_shape", "output_shape", "total_params",
                                  "feature_columns", "ecosystem_types"},
                        !.feature_columns = m.feature_columns,
                        !.ecosystem_types = m.ecosystem_types]

NoHealth == [status |-> "none", keys |-> {}, model_loaded |-> FALSE, last_update |-> 0,
             model_info |-> NoInfo]

\* ModelService.health_check on the service state (ml, lu, cm): the dict of the
\* try block, or the one of the except block when building it raised
health_check(ml, lu, cm) ==
    LET model_info == IF cm.exists THEN get_model_info(cm) ELSE NoInfo
    IN  IF model_info.raised
        THEN [NoHealth EXCEPT !.status = "unhealthy", !.keys = {"status", "error"}]
        ELSE [ status |-> "healthy",
               keys |-> {"status", "model_loaded", "model_path", "last_update", "model_info"},
               model_loaded |-> ml,
               last_update |-> lu,
               model_info |-> model_info ]

----------------------------------------------------------------------------
(* Bookkeeping of calls: what a call started from and how it ended *)

Snap(cm, ml, lu, d) == [carbon_model |-> cm, model_loaded |-> ml, last_update |-> lu, disk |-> d]

Snapshot == Snap(carbon_model, model_loaded, last_update, disk)

NoSnap == Snap(NoObject, FALSE, 0, EmptyDisk)

\* the frame of estimate_carbon_batch: its argument, the number of requests
\* the loop has taken, the results list, its position and the dict it returns
NoBatch == [requests |-> <<>>, i |-> 0, results |-> <<>>, pc |-> "none",
            total_requests |-> 0, successful |-> 0, failed |-> 0]

\* the frame of get_historical_data: its arguments (dates as day numbers),
\* current_date, the periods the loop has visited, historical_data (the
\* periods whose retrieval succeeded) and its position
NoHistory == [start_date |-> 0, end_date |-> 0, interval_days |-> 0, current_date |-> 0,
              periods |-> <<>>, historical_data |-> <<>>, pc |-> "none"]

\* the five band values an index function is called with
NoBands == [red |-> 0, nir |-> 0, blue |-> 0, swir |-> 0, green |-> 0]

\* The record of a call.
\* kind, ok, err: the call and how it ended; time: utcnow() when it started;
\* pre: the state it started from; branch: the path it took; overlapped, seen:
\* a retrain was executing while the request was outstanding, and the object as
\* it was when that retrain started; result: what predict returned;
\* analysis: the 'analysis' entry of the result; inputs: the caller's four
\* mappings as they are when the call returns; features: the vector that
\* prepare_features returned;
\* bands, index: the arguments and the value of a vegetation index call;
\* health: the dict health_check returned;
\* fit_on, val_on: the samples a completed train fitted the scaler on and
\* validated on;
\* batch: the frame of estimate_carbon_batch;
\* history: the frame of get_historical_data
NoInputs ==
    Sample(AbsentGroup, AbsentGroup, AbsentGroup, Project("absent", EmptyDict, FALSE, ""),
           FALSE, 0)

NoOp ==
    [ kind |-> "none", ok |-> FALSE, err |-> "none", time |-> 0, arg |-> 0,
      pre |-> NoSnap, branch |-> "none",
      overlapped |-> FALSE, seen |-> NoObject, result |-> NoResult,
      analysis |-> NoAnalysis, inputs |-> NoInputs, features |-> <<>>,
      bands |-> NoBands, index |-> 0, health |-> NoHealth,
      fit_on |-> {}, val_on |-> {}, batch |-> NoBatch, history |-> NoHistory ]

Op(kind, ok, err, time, arg, pre, branch, overlapped, result) ==
    [ kind |-> kind, ok |-> ok, err |-> err, time |-> time, arg |-> arg, pre |-> pre,
      branch |-> branch, overlapped |-> overlapped, seen |-> NoObject, result |-> result,
      analysis |-> NoAnalysis, inputs |-> NoInputs, features |-> <<>>,
      bands |-> NoBands, index |-> 0, health |-> NoHealth,
      fit_on |-> {}, val_on |-> {}, batch |-> NoBatch, history |-> NoHistory ]

NoTask == [kind |-> "none", pc |-> "none", arg |-> 0, overlapped |-> FALSE, seen |-> NoObject,
           time |-> 0, branch |-> "none", pre |-> NoSnap]

NotSaved == [valid |-> FALSE, obj |-> NoObject]

\* what a save_model call leaves of the record of the last complete save
SavedAfter(r, m, d) ==
    IF r.ok THEN [valid |-> TRUE, obj |-> m]
    ELSE IF r.disk = d THEN saved
    ELSE NotSaved

----------------------------------------------------------------------------
(* Artifacts a process can find under model_path when it starts *)

OldNet == [set |-> TRUE, run |-> 0, fitted |-> TRUE, bias |-> 90, gain |-> 1]
OldScaler == FittedScaler(0, Rows(NewModel, generate_synthetic_training_data))

\* written by this version of the code
DiskComplete ==
    [ h5 |-> [state |-> "ok", net |-> OldNet],
      pkl |-> [state |-> "ok", scaler |-> OldScaler],
      meta |-> [state |-> "ok", doc |-> Metadata(NewModel, 0)] ]

\* metadata.json without the feature_columns and ecosystem_types keys
DiskMetaNoKeys ==
    [DiskComplete EXCEPT !.meta.doc = [model_version |-> "0.9.0", created_at |-> 0]]

\* written by a build whose assembler had another column order and encoding
DiskOtherOrder ==
    [DiskComplete EXCEPT !.meta.doc =
        [ feature_columns |-> << "evi", "ndvi" >> \o SubSeq(feature_columns_default, 3, 14),
          ecosystem_types |-> [e \in {"mangrove", "saltmarsh", "seagrass", "tidal_marsh"} |->
                                  3 - ecosystem_types_default[e]],
          model_version |-> "0.9.0",
          created_at |-> 0 ]]


InitDisks == {EmptyDisk, DiskComplete, DiskMetaNoKeys, DiskOtherOrder}

----------------------------------------------------------------------------
(* ModelSpec: one CarbonEstimationModel driven through its public methods   *)
(* against one directory.                                                  *)

MaxCalls == 3       \* train, predict, save_model and load_model calls in one behaviour of ModelSpec

\* (training_data, validation_data) arguments tried, as indexes of Datasets;
\* validation_data 0 is None
TrainArgs == { <<1, 0>>, <<2, 0>>, <<3, 0>>, <<5, 0>>, <<2, 2>>, <<3, 5>> }

MInit ==
    /\ carbon_model = NewModel
    /\ model_loaded = FALSE
    /\ last_update = 0
    /\ disk \in InitDisks
    /\ clock = 0
    /\ tasks = [t \in Slots |-> NoTask]
    /\ lastOp = NoOp
    /\ saved = NotSaved
    /\ completed = FALSE

\* m = CarbonEstimationModel()
MNew ==
    /\ carbon_model # NewModel
    /\ carbon_model' = NewModel
    /\ lastOp' = Op("new", TRUE, "none", clock, 0, Snapshot, "none", FALSE, NoResult)
    /\ completed' = FALSE
    /\ UNCHANGED <<model_loaded, last_update, disk, clock, tasks, saved>>

\* m.train(training_data, validation_data)
MTrain ==
    /\ clock < MaxCalls
    /\ \E a \in TrainArgs, w \in FitWeights :
          LET vd == IF a[2] = 0 THEN <<>> ELSE Datasets[a[2]]
              r == train(carbon_model, Datasets[a[1]], Len(vd) > 0, vd, clock + 1, w)
          IN  /\ carbon_model' = r.m
              /\ lastOp' = [Op("train", r.ok, r.err, clock + 1, a[1], Snapshot, "none", FALSE, NoResult)
                              EXCEPT !.branch = IF Len(vd) > 0 THEN "validation_data" ELSE "validation_split",
                                     !.fit_on = IF r.ok THEN ScalerFitSamples(Datasets[a[1]]) ELSE {},
                                     !.val_on = IF r.ok THEN ValidationSamples(Datasets[a[1]], Len(vd) > 0, vd)
                                                ELSE {}]
              /\ completed' = (completed \/ r.ok)
    /\ clock' = clock + 1
    /\ UNCHANGED <<model_loaded, last_update, disk, tasks, saved>>

\* m.predict(data)
MPredict ==
    /\ clock < MaxCalls
    /\ \E i \in PredictIds :
          LET r == predict(carbon_model, PredictInputs[i])
          IN  lastOp' = Op("predict", r.ok, r.err, clock + 1, i, Snapshot, "none", FALSE, r.result)
    /\ clock' = clock + 1
    /\ UNCHANGED <<carbon_model, model_loaded, last_update, disk, tasks, saved, completed>>

\* m.save_model(path)
MSave ==
    /\ clock < MaxCalls
    /\ \E io \in SaveOutcomes :
          LET r == save_model(carbon_model, disk, clock + 1, io)
          IN  /\ disk' = r.disk
              /\ lastOp' = Op("save", r.ok, r.err, clock + 1, 0, Snapshot, io, FALSE, NoResult)
              /\ saved' = SavedAfter(r, carbon_model, disk)
    /\ clock' = clock + 1
    /\ UNCHANGED <<carbon_model, model_loaded, last_update, tasks, completed>>

\* m.load_model(path)
MLoad ==
    /\ clock < MaxCalls
    /\ LET r == load_model(carbon_model, disk)
       IN  /\ carbon_model' = r.m
           /\ lastOp' = Op("load", r.ok, r.err, clock + 1, 0, Snapshot, "none", FALSE, NoResult)
           /\ completed' = (completed \/ r.ok)
    /\ clock' = clock + 1
    /\ UNCHANGED <<model_loaded, last_update, disk, tasks, saved>>

MNext == MNew \/ MTrain \/ MPredict \/ MSave \/ MLoad

ModelSpec == MInit /\ [][MNext]_vars

----------------------------------------------------------------------------
(* ModelService on the asyncio event loop.  A request is outstanding from    *)
(* the moment it is received; its coroutine starts when the loop is free.   *)
(* predict_carbon_sequestration and retrain_model contain no await, and     *)
(* load_models awaits only the coroutine _create_sample_model, which does   *)
(* not suspend either: a started coroutine runs to its return before any    *)
(* other one runs.  The steps below are consecutive statements of one       *)
(* coroutine; pc is the statement it has reached.                           *)

\* retrain_model(new_data) arguments tried, as indexes of Datasets
RetrainArgs == {1, 2, 3, 5}

ServiceInitDisks == {EmptyDisk, DiskComplete, DiskOtherOrder}

InFlight(u) == tasks[u].pc \notin {"none", "pending"}

RetrainInFlight == \E u \in Slots : tasks[u].kind = "retrain" /\ InFlight(u)

\* the object as it was when the retrain now executing started
RetrainSeen ==
    tasks[CHOOSE u \in Slots : tasks[u].kind = "retrain" /\ InFlight(u)].pre.carbon_model

\* (mutant) the loop starts a coroutine while another one is between statements
LoopFree_switches_anywhere == TRUE

\* no coroutine is between its first statement and its return
LoopFree == \A u \in Slots : ~InFlight(u)

\* (mutant) the guard tests the object alone
NotLoaded_object_only(ml, cm) == ~cm.exists

\* if not self.model_loaded or self.carbon_model is None
NotLoaded(ml, cm) == ~ml \/ ~cm.exists

\* os.path.exists(model_file) and os.path.exists(scaler_file)
ArtifactFilesExist(d) == d.h5.state # "missing" /\ d.pkl.state # "missing"

\* the coroutine of slot t returns or raises
Finish(t, op) ==
    /\ tasks' = [tasks EXCEPT ![t] = NoTask]
    /\ lastOp' = op

SInit ==
    /\ carbon_model = NoObject
    /\ model_loaded = FALSE
    /\ last_update = 0
    /\ disk \in ServiceInitDisks
    /\ clock = 0
    /\ tasks = [t \in Slots |-> NoTask]
    /\ lastOp = NoOp
    /\ saved = NotSaved
    /\ completed = FALSE

\* a request arrives
Submit(t) ==
    /\ tasks[t].pc = "none"
    /\ clock + Cardinality({u \in Slots : tasks[u].pc # "none"}) < MaxClock
    /\ \E kind \in {"retrain", "predict", "load_models"} :
          tasks' = [tasks EXCEPT ![t] =
                      [NoTask EXCEPT !.kind = kind, !.pc = "pending",
                                     !.overlapped = RetrainInFlight,
                                     !.seen = IF RetrainInFlight THEN RetrainSeen
                                              ELSE NoObject]]
    /\ UNCHANGED <<carbon_model, model_loaded, last_update, disk, clock, lastOp, saved, completed>>

\* the loop starts the coroutine of slot t
Starts(t, kind) ==
    /\ tasks[t].kind = kind
    /\ tasks[t].pc = "pending"
    /\ LoopFree
    /\ clock' = clock + 1

(* ModelService.retrain_model *)

\* lines 284-292: the guard; the requests outstanding now overlap this retrain
RetrainBegin(t) ==
    /\ Starts(t, "retrain")
    /\ IF NotLoaded(model_loaded, carbon_model)
       THEN Finish(t, Op("retrain", FALSE, "not_loaded", clock + 1, 0, Snapshot, "none",
                         tasks[t].overlapped, NoResult))
       ELSE /\ tasks' = [u \in Slots |->
                           IF u = t
                           THEN [tasks[t] EXCEPT !.pc = "train", !.time = clock + 1,
                                                 !.pre = Snapshot]
                           ELSE IF tasks[u].pc = "pending" /\ ~tasks[u].overlapped
                           THEN [tasks[u] EXCEPT !.overlapped = TRUE, !.seen = carbon_model]
                           ELSE tasks[u]]
            /\ lastOp' = NoOp
    /\ UNCHANGED <<carbon_model, model_loaded, last_update, disk, saved, completed>>

\* line 295: history = self.carbon_model.train(training_data)
RetrainTrain(t) ==
    /\ tasks[t].kind = "retrain"
    /\ tasks[t].pc = "train"
    /\ \E ds \in RetrainArgs, w \in FitWeights :
          LET r == train(carbon_model, Datasets[ds], FALSE, <<>>, tasks[t].time, w)
          IN  /\ carbon_model' = r.m
              /\ completed' = (completed \/ r.ok)
              /\ IF r.ok
                 THEN /\ tasks' = [tasks EXCEPT ![t].pc = "save", ![t].arg = ds]
                      /\ UNCHANGED lastOp
                 ELSE Finish(t, Op("retrain", FALSE, r.err, tasks[t].time, ds, tasks[t].pre,
                                   "none", tasks[t].overlapped, NoResult))
    /\ UNCHANGED <<model_loaded, last_update, disk, clock, saved>>

\* (mutant) last_update is set before save_model is called
RetrainSave_stamps_first(t) ==
    /\ tasks[t].kind = "retrain"
    /\ tasks[t].pc = "save"
    /\ \E io \in SaveOutcomes :
          LET r == save_model(carbon_model, disk, clock, io)
          IN  /\ disk' = r.disk
              /\ saved' = SavedAfter(r, carbon_model, disk)
              /\ last_update' = clock
              /\ Finish(t, Op("retrain", r.ok, r.err, tasks[t].time, tasks[t].arg,
                              tasks[t].pre, io, tasks[t].overlapped, NoResult))
    /\ UNCHANGED <<carbon_model, model_loaded, clock, completed>>

\* lines 298-313: save_model, last_update, the metrics and the return
RetrainSave(t) ==
    /\ tasks[t].kind = "retrain"
    /\ tasks[t].pc = "save"
    /\ \E io \in SaveOutcomes :
          LET r == save_model(carbon_model, disk, clock, io)
          IN  /\ disk' = r.disk
              /\ saved' = SavedAfter(r, carbon_model, disk)
              /\ last_update' = IF r.ok THEN clock ELSE last_update
              /\ Finish(t, Op("retrain", r.ok, r.err, tasks[t].time, tasks[t].arg,
                              tasks[t].pre, io, tasks[t].overlapped, NoResult))
    /\ UNCHANGED <<carbon_model, model_loaded, clock, completed>>

(* ModelService.predict_carbon_sequestration *)

\* (mutant) the defaults are written into the caller's project mapping
predict_carbon_sequestration_fills_project(ml, cm, input_data) ==
    LET r == predict(cm, input_data)
        filled == [input_data EXCEPT !.project_data.has_eco = TRUE,
                                     !.project_data.eco =
                                         IF input_data.project_data.has_eco THEN @
                                         ELSE "mangrove"]
        failed(err) == [ok |-> FALSE, err |-> err, result |-> NoResult,
                        analysis |-> NoAnalysis, inputs |-> input_data]
    IN  IF NotLoaded(ml, cm) THEN failed("not_loaded")
        ELSE IF ~r.ok THEN failed(r.err)
        ELSE IF ~RecommendOk(input_data) THEN failed("analysis")
        ELSE [ok |-> TRUE, err |-> "none", result |-> r.result,
              analysis |-> _analyze_prediction(filled, r.result),
              inputs |-> filled]

\* the call on the service state (ml, cm) with the four mappings of input_data:
\* how it ended, the prediction dict, its 'analysis' entry, and the mappings as
\* the call leaves them (no statement of the call writes to them)
predict_carbon_sequestration(ml, cm, input_data) ==
    LET r == predict(cm, input_data)
        failed(err) == [ok |-> FALSE, err |-> err, result |-> NoResult,
                        analysis |-> NoAnalysis, inputs |-> input_data]
    IN  IF NotLoaded(ml, cm) THEN failed("not_loaded")
        ELSE IF ~r.ok THEN failed(r.err)
        ELSE IF ~RecommendOk(input_data) THEN failed("analysis")
        ELSE [ok |-> TRUE, err |-> "none", result |-> r.result,
              analysis |-> _analyze_prediction(input_data, r.result),
              inputs |-> input_data]

PredictRun(t) ==
    /\ Starts(t, "predict")
    /\ \E i \in PredictIds :
          LET r == predict_carbon_sequestration(model_loaded, carbon_model, PredictInputs[i])
          IN  Finish(t, [Op("predict", r.ok, r.err, clock + 1, i, Snapshot, "none",
                            tasks[t].overlapped, r.result)
                           EXCEPT !.seen = IF r.err = "not_loaded" THEN NoObject
                                           ELSE tasks[t].seen,
                                  !.analysis = r.analysis,
                                  !.inputs = r.inputs])
    /\ UNCHANGED <<carbon_model, model_loaded, last_update, disk, saved, completed>>

(* ModelService.health_check: it has no await and assigns nothing; it runs *)
(* whenever no other coroutine is between its first statement and return  *)

HealthCheck ==
    /\ LoopFree
    /\ lastOp' = [Op("health_check", TRUE, "none", clock, 0, Snapshot, "none", FALSE, NoResult)
                    EXCEPT !.health = health_check(model_loaded, last_update, carbon_model)]
    /\ UNCHANGED <<carbon_model, model_loaded, last_update, disk, clock, tasks, saved, completed>>

(* ModelService.load_models and _create_sample_model *)

\* os.makedirs(self.model_path, exist_ok=True) (line 33) returns, or raises
\* where the path cannot be made a directory
MakedirsOutcomes == {"ok", "raises"}

\* lines 31-39: makedirs and the test for the two files; when makedirs raises
\* the except clause re-raises (50-52) and nothing has been assigned
LoadModelsBegin(t) ==
    /\ Starts(t, "load_models")
    /\ \E mk \in MakedirsOutcomes :
          IF mk = "raises"
          THEN Finish(t, Op("load_models", FALSE, "makedirs", clock + 1, 0, Snapshot,
                            "makedirs", tasks[t].overlapped, NoResult))
          ELSE /\ tasks' = [tasks EXCEPT ![t] =
                    [@ EXCEPT !.pc = IF ArtifactFilesExist(disk) THEN "load" ELSE "create_train",
                              !.branch = IF ArtifactFilesExist(disk) THEN "load" ELSE "create",
                              !.time = clock + 1,
                              !.pre = Snapshot]]
               /\ lastOp' = NoOp
    /\ UNCHANGED <<carbon_model, model_loaded, last_update, disk, saved, completed>>

\* lines 41-44: a new CarbonEstimationModel, load_model, model_loaded = True
LoadExisting(t) ==
    /\ tasks[t].kind = "load_models"
    /\ tasks[t].pc = "load"
    /\ LET r == load_model(NewModel, disk)
       IN  /\ carbon_model' = r.m
           /\ completed' = r.ok
           /\ model_loaded' = IF r.ok THEN TRUE ELSE model_loaded
           /\ Finish(t, Op("load_models", r.ok, r.err, tasks[t].time, 0, tasks[t].pre,
                           "load", tasks[t].overlapped, NoResult))
    /\ UNCHANGED <<last_update, disk, clock, saved>>

\* lines 58-62: a new CarbonEstimationModel trained on the synthetic data
CreateTrain(t) ==
    /\ tasks[t].kind = "load_models"
    /\ tasks[t].pc = "create_train"
    /\ \E w \in FitWeights :
          LET r == train(NewModel, generate_synthetic_training_data, FALSE, <<>>,
                         tasks[t].time, w)
          IN  /\ carbon_model' = r.m
              /\ completed' = r.ok
              /\ IF r.ok
                 THEN /\ tasks' = [tasks EXCEPT ![t].pc = "create_save"]
                      /\ UNCHANGED lastOp
                 ELSE Finish(t, Op("load_models", FALSE, r.err, tasks[t].time, 0, tasks[t].pre,
                                   "create", tasks[t].overlapped, NoResult))
    /\ UNCHANGED <<model_loaded, last_update, disk, clock, saved>>

\* (mutant) _create_sample_model returns without setting model_loaded
CreateSave_forgets_flag(t) ==
    /\ tasks[t].kind = "load_models"
    /\ tasks[t].pc = "create_save"
    /\ \E io \in SaveOutcomes :
          LET r == save_model(carbon_model, disk, clock, io)
          IN  /\ disk' = r.disk
              /\ saved' = SavedAfter(r, carbon_model, disk)
              /\ Finish(t, Op("load_models", r.ok, r.err, tasks[t].time, 0, tasks[t].pre,
                              "create", tasks[t].overlapped, NoResult))
    /\ UNCHANGED <<carbon_model, model_loaded, last_update, clock, completed>>

\* lines 65-66: save_model, model_loaded = True
CreateSave(t) ==
    /\ tasks[t].kind = "load_models"
    /\ tasks[t].pc = "create_save"
    /\ \E io \in SaveOutcomes :
          LET r == save_model(carbon_model, disk, clock, io)
          IN  /\ disk' = r.disk
              /\ saved' = SavedAfter(r, carbon_model, disk)
              /\ model_loaded' = IF r.ok THEN TRUE ELSE model_loaded
              /\ Finish(t, Op("load_models", r.ok, r.err, tasks[t].time, 0, tasks[t].pre,
                              "create", tasks[t].overlapped, NoResult))
    /\ UNCHANGED <<carbon_model, last_update, clock, completed>>

Next ==
    \/ HealthCheck
    \/ \E t \in Slots :
        \/ Submit(t)
        \/ RetrainBegin(t)
        \/ RetrainTrain(t)
        \/ RetrainSave(t)
        \/ PredictRun(t)
        \/ LoadModelsBegin(t)
        \/ LoadExisting(t)
        \/ CreateTrain(t)
        \/ CreateSave(t)

Spec == SInit /\ [][Next]_vars

----------------------------------------------------------------------------
(* CallSpec: single calls of the feature assembler, of the confidence       *)
(* computation of predict and of the analysis functions of ModelService,   *)
(* on a newly constructed object.  The caller holds the arguments: the     *)
(* data mapping in lastOp.inputs and the network output in lastOp.arg.     *)

Fields(names, v) == [f \in names |-> v]

SatelliteOptions ==
    { AbsentGroup, NoneGroup, Dict(EmptyDict),
      Dict(Fields({"ndvi"}, 6)),
      Dict(Fields({"ndvi", "evi", "savi"}, 4)),
      Dict(Fields({"ndvi", "evi", "savi", "ndwi"}, 5)) }

\* the estimate route passes all six sensor keys and both field keys, with
\* None for the values the request left unset (carbon_estimation.py 128-145)
SensorOptions ==
    { AbsentGroup, NoneGroup, Dict(EmptyDict),
      Dict(Fields({"temperature"}, 300)),
      Dict(Fields({"humidity", "ph"}, 80)),
      Dict(Fields({"temperature", "soil_moisture", "salinity"}, 30)),
      Dict([f \in {"temperature", "humidity", "soil_moisture", "salinity", "ph",
                   "organic_matter"} |-> IF f = "temperature" THEN 280 ELSE NoneVal]) }

FieldOptions ==
    { AbsentGroup, Dict(EmptyDict),
      Dict(Fields({"biomass_density"}, 150)),
      Dict(Fields({"biomass_density", "canopy_height"}, 80)),
      Dict([f \in {"biomass_density", "canopy_height"} |->
               IF f = "biomass_density" THEN 120 ELSE NoneVal]) }

ProjectOptions ==
    { Project("absent", EmptyDict, FALSE, ""),
      Project("dict", EmptyDict, FALSE, ""),
      Project("dict", Fields({"area_hectares"}, 5), TRUE, "mangrove"),
      Project("dict", Fields({"area_hectares"}, 9), TRUE, "saltmarsh"),
      Project("dict", Fields({"area_hectares"}, 10), TRUE, "kelp_forest"),
      Project("dict", Fields({"area_hectares"}, 500), TRUE, "seagrass"),
      Project("dict", EmptyDict, TRUE, "tidal_marsh") }

CallInputs ==
    { Sample(sat, sen, fld, prj, FALSE, 0) :
        sat \in SatelliteOptions, sen \in SensorOptions,
        fld \in FieldOptions, prj \in ProjectOptions }

\* outputs of the network, in tenths: zero, negative, around the two clamps
\* (5.0 and 50.0) and the 0.7 threshold (30.0), very large, and NaN
Estimates == { NaN, -100000, -301, -50, 0, 49, 51, 300, 301, 500, 100000 }

\* the prediction dict predict builds from the network output (205-216)
PredictionOf(carbon_estimate) ==
    [NoResult EXCEPT !.carbon_estimate = carbon_estimate,
                     !.confidence = Confidence(carbon_estimate)]

Call(kind, ok) == [NoOp EXCEPT !.kind = kind, !.ok = ok,
                               !.inputs = lastOp.inputs, !.arg = lastOp.arg]

CInit ==
    /\ carbon_model = NewModel
    /\ model_loaded = FALSE
    /\ last_update = 0
    /\ disk = EmptyDisk
    /\ clock = 0
    /\ tasks = [t \in Slots |-> NoTask]
    /\ \E d \in CallInputs, e \in Estimates :
          lastOp = [NoOp EXCEPT !.inputs = d, !.arg = e]
    /\ saved = NotSaved
    /\ completed = FALSE

CFrame == UNCHANGED <<carbon_model, model_loaded, last_update, disk, clock, tasks, saved, completed>>

\* carbon_model.prepare_features(data)
CallPrepareFeatures ==
    /\ lastOp' = IF AssembleOk(lastOp.inputs)
                 THEN [Call("prepare_features", TRUE) EXCEPT
                          !.features = prepare_features(carbon_model, lastOp.inputs)]
                 ELSE [Call("prepare_features", FALSE) EXCEPT !.err = "assemble"]
    /\ CFrame

\* lines 205-216 of predict on the network output lastOp.arg
CallConfidence ==
    /\ lastOp' = [Call("confidence", TRUE) EXCEPT !.result = PredictionOf(lastOp.arg)]
    /\ CFrame

\* self._assess_data_quality(input_data)
CallAssessDataQuality ==
    /\ lastOp' = [Call("_assess_data_quality", TRUE) EXCEPT
                    !.analysis.data_quality = _assess_data_quality(lastOp.inputs)]
    /\ CFrame

\* self._generate_recommendations(input_data, prediction)
CallGenerateRecommendations ==
    /\ lastOp' = IF RecommendOk(lastOp.inputs)
                 THEN [Call("_generate_recommendations", TRUE) EXCEPT
                          !.result = PredictionOf(lastOp.arg),
                          !.analysis.recommendations =
                              _generate_recommendations(lastOp.inputs, PredictionOf(lastOp.arg))]
                 ELSE [Call("_generate_recommendations", FALSE) EXCEPT !.err = "analysis"]
    /\ CFrame

CNext ==
    \/ CallPrepareFeatures
    \/ CallConfidence
    \/ CallAssessDataQuality
    \/ CallGenerateRecommendations

CallSpec == CInit /\ [][CNext]_vars

----------------------------------------------------------------------------
(* models/vegetation_indices.py: VegetationIndicesCalculator.  Band values  *)
(* are in hundredths (0.5 is 50), index values in thousandths, rounded     *)
(* down.  IndexSpec calls each index function on enumerated band values.   *)

\* float infinity, and a quotient by the epsilon 1e-10: its magnitude is at
\* least 1e8 for a numerator of one unit, beyond every clamp range
Inf == 100000000
Huge == 10000000

\* How the float value of a denominator whose exact value is zero comes out:
\* 0.0, or a rounding residue of about 1e-16 above or below zero
FloatRoundings == {"exact", "above", "below"}

\* (mutant) the denominator is used as it is
Denominator_keeps_zero(d, rounding) == [eps |-> FALSE, tiny |-> 0, v |-> d]

\* np.where(denominator == 0, 1e-10, denominator): eps says that 1e-10 was
\* put in, tiny is the sign of a residue that the test for zero lets through
Denominator(d, rounding) ==
    [ eps |-> d = 0 /\ rounding = "exact",
      tiny |-> IF d # 0 \/ rounding = "exact" THEN 0
               ELSE IF rounding = "above" THEN 1 ELSE -1,
      v |-> d ]

\* numpy float division num / den, in thousandths rounded down; a division by
\* zero gives nan or inf with a warning, it does not raise
Quotient(num, den) ==
    IF den.eps
    THEN (IF num = 0 THEN 0 ELSE IF num > 0 THEN Huge ELSE -Huge)
    ELSE IF den.tiny # 0
    THEN (IF num = 0 THEN 0 ELSE IF num > 0 THEN den.tiny * Huge ELSE -den.tiny * Huge)
    ELSE IF den.v = 0
    THEN (IF num = 0 THEN NaN ELSE IF num > 0 THEN Inf ELSE -Inf)
    ELSE (num * 1000) \div den.v

\* np.clip(x, lo, hi); nan stays nan
np_clip(x, lo, hi) == IF x = NaN THEN NaN ELSE Max(lo, Min(hi, x))

\* nir + red is exactly zero in floats when nir = -red
calculate_ndvi(red, nir) ==
    np_clip(Quotient(nir - red, Denominator(nir + red, "exact")), -1000, 1000)

\* the float value of nir + 6 * red - 7.5 * blue + 1 for bands that make the
\* exact value zero: evaluated left to right in IEEE doubles for the band
\* values used here, any rounding for other bands
EviRoundings(nir, red, blue) ==
    IF <<nir, red, blue>> \in { <<50, 0, 20>>, <<50, -50, -20>> } THEN {"exact"}
    ELSE IF <<nir, red, blue>> = <<20, -20, 0>> THEN {"below"}
    ELSE FloatRoundings

\* 2.5 * (nir - red) / (nir + 6 * red - 7.5 * blue + 1), both sides doubled
calculate_evi(nir, red, blue, rounding) ==
    np_clip(Quotient(5 * (nir - red),
                     Denominator(2 * nir + 12 * red - 15 * blue + 200, rounding)),
            -1000, 1000)

\* the float value of nir + red + 0.5 for bands that make the exact value zero
SaviRoundings(nir, red) ==
    IF <<nir, red>> \in { <<-50, 0>>, <<0, -50>> } THEN {"exact"}
    ELSE FloatRoundings

\* (nir - red) / (nir + red + l) * (1 + l) with l = 0.5, both sides doubled
calculate_savi(nir, red, rounding) ==
    np_clip(Quotient(3 * (nir - red), Denominator(2 * (nir + red + 50), rounding)),
            -1000, 1000)

\* nir + swir is exactly zero in floats when nir = -swir
calculate_ndwi(nir, swir) ==
    np_clip(Quotient(nir - swir, Denominator(nir + swir, "exact")), -1000, 1000)

\* (nir / green) - 1; green itself is tested for zero
calculate_gci(nir, green) ==
    LET q == Quotient(nir, Denominator(green, "exact"))
    IN  np_clip(IF q = NaN THEN NaN ELSE q - 1000, -1000, 10000)

\* reflectances: negative, zero, small, up to 0.5; they make each of the five
\* denominators zero for some combination, and the float denominator of EVI
\* a negative residue for nir = 0.2, red = -0.2, blue = 0
BandValues == {-50, -20, 0, 10, 20, 50}

IndexCall(kind, value) ==
    [NoOp EXCEPT !.kind = kind, !.ok = TRUE, !.bands = lastOp.bands, !.index = value]

IInit ==
    /\ carbon_model = NoObject
    /\ model_loaded = FALSE
    /\ last_update = 0
    /\ disk = EmptyDisk
    /\ clock = 0
    /\ tasks = [t \in Slots |-> NoTask]
    /\ \E red, nir, blue, swir, green \in BandValues :
          lastOp = [NoOp EXCEPT !.bands = [red |-> red, nir |-> nir, blue |-> blue,
                                           swir |-> swir, green |-> green]]
    /\ saved = NotSaved
    /\ completed = FALSE

IFrame == UNCHANGED <<carbon_model, model_loaded, last_update, disk, clock, tasks, saved, completed>>

CalculateNdvi ==
    /\ lastOp' = IndexCall("calculate_ndvi", calculate_ndvi(lastOp.bands.red, lastOp.bands.nir))
    /\ IFrame

CalculateEvi ==
    /\ \E rounding \in EviRoundings(lastOp.bands.nir, lastOp.bands.red, lastOp.bands.blue) :
          lastOp' = IndexCall("calculate_evi",
                              calculate_evi(lastOp.bands.nir, lastOp.bands.red,
                                            lastOp.bands.blue, rounding))
    /\ IFrame

CalculateSavi ==
    /\ \E rounding \in SaviRoundings(lastOp.bands.nir, lastOp.bands.red) :
          lastOp' = IndexCall("calculate_savi",
                              calculate_savi(lastOp.bands.nir, lastOp.bands.red, rounding))
    /\ IFrame

CalculateNdwi ==
    /\ lastOp' = IndexCall("calculate_ndwi", calculate_ndwi(lastOp.bands.nir, lastOp.bands.swir))
    /\ IFrame

CalculateGci ==
    /\ lastOp' = IndexCall("calculate_gci", calculate_gci(lastOp.bands.nir, lastOp.bands.green))
    /\ IFrame

INext == CalculateNdvi \/ CalculateEvi \/ CalculateSavi \/ CalculateNdwi \/ CalculateGci

IndexSpec == IInit /\ [][INext]_vars

----------------------------------------------------------------------------
(* BatchSpec: the routes estimate_carbon_sequestration and                  *)
(* estimate_carbon_batch of api/routes/carbon_estimation.py, called on a   *)
(* service in one of the states Spec reaches.  Neither route has an await  *)
(* that suspends, so the service is the same for the whole batch.          *)

MaxBatch == 3       \* requests in one batch

\* CarbonEstimationRequest: project_data is required (area_hectares and
\* ecosystem_type too); satellite_data, sensor_data and field_measurements are
\* optional (None when left out), and a field that a given sensor_data or
\* field_measurements leaves out is None
Request(project_id, satellite, sensor, field, area, eco) ==
    [ project_id |-> project_id, satellite_data |-> satellite, sensor_data |-> sensor,
      field_measurements |-> field, area_hectares |-> area, ecosystem_type |-> eco ]

\* an optional group: left out of the request (None), or given with the
\* fields d set
NotGiven == [given |-> FALSE, d |-> EmptyDict]
Given(d) == [given |-> TRUE, d |-> d]

BatchRequests ==
    { Request(1, FALSE, NotGiven, NotGiven, 5, "mangrove"),
      Request(2, TRUE, Given([f \in {"temperature"} |-> 280]), NotGiven, 500, "seagrass"),
      Request(NoneVal, FALSE,
              Given([f \in {"temperature", "soil_moisture", "salinity"} |-> 300]),
              Given([f \in {"biomass_density", "canopy_height"} |-> 120]), 10, "kelp_forest"),
      Request(4, FALSE, Given(EmptyDict), Given(EmptyDict), 5, "mangrove") }

\* the 'vegetation_indices' of a retrieved image (gee_service.py 199-205)
VegetationIndices == [f \in {"ndvi", "evi", "savi", "ndwi", "gci"} |-> 4]

\* what gee_svc.get_satellite_data does for a request
GeeOutcomes == {"ok", "raises"}

\* lines 99-150: the four mappings built from a request
RouteInputs(request, gee) ==
    Sample(IF request.satellite_data /\ gee = "ok" THEN Dict(VegetationIndices)
           ELSE Dict(EmptyDict),
           \* 'if request.sensor_data:' is true of every SensorDataRequest
           IF request.sensor_data.given
           THEN Dict([f \in {"temperature", "humidity", "soil_moisture", "salinity", "ph",
                             "organic_matter"} |-> DictGet(request.sensor_data.d, f, NoneVal)])
           ELSE Dict(EmptyDict),
           IF request.field_measurements.given
           THEN Dict([f \in {"biomass_density", "canopy_height", "stem_density",
                             "leaf_area_index"} |->
                         DictGet(request.field_measurements.d, f, NoneVal)])
           ELSE Dict(EmptyDict),
           Project("dict",
                   [f \in {"area_hectares", "project_id", "location"} |->
                       CASE f = "area_hectares" -> request.area_hectares
                         [] f = "project_id" -> request.project_id
                         [] OTHER -> NoneVal],
                   TRUE, request.ecosystem_type),
           FALSE, 0)

NoResponse == [carbon_estimate |-> 0, confidence |-> 0, analysis |-> NoAnalysis,
               has_satellite_data |-> FALSE, recommendations |-> <<>>]

\* estimate_carbon_sequestration (84-183): the CarbonEstimationResponse, or
\* the HTTPException(500) raised for any exception of the body
estimate_carbon_sequestration(ml, cm, request, gee) ==
    LET input_data == RouteInputs(request, gee)
        prediction == predict_carbon_sequestration(ml, cm, input_data)
    IN  IF ~prediction.ok
        THEN [ok |-> FALSE, err |-> prediction.err, response |-> NoResponse]
        ELSE [ok |-> TRUE, err |-> "none",
              response |-> [ carbon_estimate |-> prediction.result.carbon_estimate,
                             confidence |-> prediction.result.confidence,
                             analysis |-> prediction.analysis,
                             has_satellite_data |-> Truthy(input_data.satellite_data),
                             recommendations |-> prediction.analysis.recommendations ]]

\* (mutant) the except branch logs the error and appends nothing
BatchAppend_drops_errors(results, request, r) ==
    IF r.ok
    THEN Append(results, [project_id |-> request.project_id, status |-> "success",
                          result |-> r.response, error |-> "none"])
    ELSE results

\* lines 246-262: the entry appended for a request, in the try or in the
\* except branch
BatchAppend(results, request, r) ==
    IF r.ok
    THEN Append(results, [project_id |-> request.project_id, status |-> "success",
                          result |-> r.response, error |-> "none"])
    ELSE Append(results, [project_id |-> request.project_id, status |-> "error",
                          result |-> NoResponse, error |-> r.err])

\* len([r for r in results if r['status'] == status])
CountStatus(results, status) ==
    Cardinality({k \in 1..Len(results) : results[k].status = status})

RECURSIVE SeqsUpTo(_, _)
\* the lists of at most n elements of S
SeqsUpTo(S, n) ==
    IF n = 0 THEN { <<>> }
    ELSE LET shorter == SeqsUpTo(S, n - 1)
         IN  shorter \cup { Append(q, x) : q \in shorter, x \in S }

\* the artifact of this version loaded from disk, and the same after a retrain
\* whose train failed in fit_transform
LoadedObject == load_model(NewModel, DiskComplete).m
BatchServices ==
    { [model_loaded |-> FALSE, carbon_model |-> NoObject],
      [model_loaded |-> TRUE, carbon_model |-> LoadedObject],
      [model_loaded |-> TRUE,
       carbon_model |-> train(LoadedObject, <<>>, FALSE, <<>>, 1, CHOOSE w \in FitWeights : TRUE).m] }

BInit ==
    /\ \E svc \in BatchServices :
          /\ carbon_model = svc.carbon_model
          /\ model_loaded = svc.model_loaded
    /\ last_update = 0
    /\ disk = DiskComplete
    /\ clock = 0
    /\ tasks = [t \in Slots |-> NoTask]
    /\ \E requests \in SeqsUpTo(BatchRequests, MaxBatch) :
          lastOp = [NoOp EXCEPT !.kind = "estimate_carbon_batch",
                                !.batch = [NoBatch EXCEPT !.requests = requests, !.pc = "loop"]]
    /\ saved = NotSaved
    /\ completed = FALSE

BFrame == UNCHANGED <<carbon_model, model_loaded, last_update, disk, clock, tasks, saved, completed>>

\* one iteration of the loop (lines 244-262)
BatchIterate ==
    /\ lastOp.batch.pc = "loop"
    /\ lastOp.batch.i < Len(lastOp.batch.requests)
    /\ \E gee \in GeeOutcomes :
          LET b == lastOp.batch
              request == b.requests[b.i + 1]
              r == estimate_carbon_sequestration(model_loaded, carbon_model, request, gee)
          IN  /\ request.satellite_data \/ gee = "ok"
              /\ lastOp' = [lastOp EXCEPT !.batch.i = b.i + 1,
                                          !.batch.results = BatchAppend(b.results, request, r)]
    /\ BFrame

\* lines 264-269: the dict returned after the loop
BatchReturn ==
    /\ lastOp.batch.pc = "loop"
    /\ lastOp.batch.i = Len(lastOp.batch.requests)
    /\ lastOp' = [lastOp EXCEPT !.ok = TRUE,
                                !.batch.pc = "returned",
                                !.batch.total_requests = Len(lastOp.batch.requests),
                                !.batch.successful = CountStatus(lastOp.batch.results, "success"),
                                !.batch.failed = CountStatus(lastOp.batch.results, "error")]
    /\ BFrame

BNext == BatchIterate \/ BatchReturn

BatchSpec == BInit /\ [][BNext]_vars

----------------------------------------------------------------------------
(* HistorySpec: GoogleEarthEngineService.get_historical_data                *)
(* (services/gee_service.py).  A date is the number of its day, counted    *)
(* from 2024-01-01.                                                        *)

MaxDay == 4         \* start_date and end_date are days 0..MaxDay

\* iterations of the period loop followed in one behaviour
MaxIterations == MaxDay + 1

\* interval_days is an int without a constraint (HistoricalDataRequest,
\* satellite_data.py 32); 30 is the default
Intervals == {-1, 0, 1, 2, 30, 3000000, 1000000000}

\* datetime.min (0001-01-01) and datetime.max (9999-12-31) as day numbers,
\* and the largest number of days of a timedelta
FirstDay == -738885
LastDay == 2913173
MaxTimedeltaDays == 999999999

\* period_end = min(current_date + timedelta(days=interval_days), end_dt);
\* timedelta and the addition raise OverflowError out of their ranges
period_end(current_date, interval_days, end_dt) ==
    IF \/ Abs(interval_days) > MaxTimedeltaDays
       \/ current_date + interval_days < FirstDay
       \/ current_date + interval_days > LastDay
    THEN [raised |-> TRUE, date |-> current_date]
    ELSE [raised |-> FALSE, date |-> Min(current_date + interval_days, end_dt)]

HInit ==
    /\ carbon_model = NoObject
    /\ model_loaded = FALSE
    /\ last_update = 0
    /\ disk = EmptyDisk
    /\ clock = 0
    /\ tasks = [t \in Slots |-> NoTask]
    /\ \E start_dt, end_dt \in 0..MaxDay, interval_days \in Intervals :
          lastOp = [NoOp EXCEPT !.kind = "get_historical_data",
                                !.history = [NoHistory EXCEPT !.start_date = start_dt,
                                                              !.end_date = end_dt,
                                                              !.interval_days = interval_days,
                                                              !.current_date = start_dt,
                                                              !.pc = "loop"]]
    /\ saved = NotSaved
    /\ completed = FALSE

HFrame == UNCHANGED <<carbon_model, model_loaded, last_update, disk, clock, tasks, saved, completed>>

\* one iteration of the while loop (lines 263-282); get_satellite_data
\* returns the data of the period or raises, which the loop survives; an
\* OverflowError of line 265 is outside the inner try and ends the call
HistoryIterate ==
    /\ lastOp.history.pc = "loop"
    /\ lastOp.history.current_date < lastOp.history.end_date
    /\ Len(lastOp.history.periods) < MaxIterations
    /\ \E gee \in GeeOutcomes :
          LET h == lastOp.history
              pe == period_end(h.current_date, h.interval_days, h.end_date)
              period == << h.current_date, pe.date >>
          IN  lastOp' = IF pe.raised
                        THEN [lastOp EXCEPT !.ok = FALSE, !.err = "overflow",
                                            !.history.pc = "raised"]
                        ELSE [lastOp EXCEPT
                                 !.history.periods = Append(h.periods, period),
                                 !.history.historical_data =
                                     IF gee = "ok" THEN Append(h.historical_data, period)
                                     ELSE h.historical_data,
                                 !.history.current_date = pe.date]
    /\ HFrame

\* the loop condition is false: return historical_data (line 284)
HistoryReturn ==
    /\ lastOp.history.pc = "loop"
    /\ ~(lastOp.history.current_date < lastOp.history.end_date)
    /\ lastOp' = [lastOp EXCEPT !.ok = TRUE, !.history.pc = "returned"]
    /\ HFrame

HNext == HistoryIterate \/ HistoryReturn

HistorySpec == HInit /\ [][HNext]_vars

----------------------------------------------------------------------------
(* Claims about CarbonEstimationModel, checked under ModelSpec *)

SameArtifact(a, b) == a.model = b.model /\ a.scaler = b.scaler

\* C1: a train call that fails leaves model and scaler exactly as they were
\* before the call.
C1_TrainFailureKeepsState ==
    (lastOp.kind = "train" /\ ~lastOp.ok) =>
        SameArtifact(carbon_model, lastOp.pre.carbon_model)

\* C4: save_model and load_model are all-or-nothing: a save that fails leaves
\* the three persisted parts as they were, a load that fails leaves model,
\* scaler, feature_columns and ecosystem_types as they were.
C4_SaveLoadAtomic ==
    /\ (lastOp.kind = "save" /\ ~lastOp.ok) => disk = lastOp.pre.disk
    /\ (lastOp.kind = "load" /\ ~lastOp.ok) => carbon_model = lastOp.pre.carbon_model

\* the artifact has its three parts, the metadata has the two keys load_model
\* reads, and its feature_columns is the assembler's column order
ArtifactAcceptable(d) ==
    /\ d.h5.state = "ok"
    /\ d.pkl.state = "ok"
    /\ d.meta.state = "ok"
    /\ "feature_columns" \in DOMAIN d.meta.doc
    /\ "ecosystem_types" \in DOMAIN d.meta.doc
    /\ d.meta.doc.feature_columns = feature_columns_default

\* C5: load_model completes only on an artifact that has every required
\* component and the expected feature-column order; otherwise it fails.
C5_LoadRejectsBadArtifact ==
    (lastOp.kind = "load" /\ lastOp.ok) => ArtifactAcceptable(lastOp.pre.disk)

\* C6: on an object that has not completed a train or a load_model, predict and
\* save_model fail and change neither the object nor the disk.
C6_UninitializedRejects ==
    (lastOp.kind \in {"predict", "save"} /\ ~completed) =>
        /\ ~lastOp.ok
        /\ disk = lastOp.pre.disk
        /\ carbon_model = lastOp.pre.carbon_model

\* what the caller sees of predict: how it ended, estimate and confidence
Seen(r) == <<r.ok, r.err, r.result.carbon_estimate, r.result.confidence>>

\* C10: after save_model then load_model of what was saved (into the same or a
\* new object), predict gives for every input the estimate and confidence the
\* saved object gave.
C10_SaveLoadRoundTrip ==
    (lastOp.kind = "load" /\ lastOp.ok /\ saved.valid) =>
        \A i \in PredictIds :
            Seen(predict(carbon_model, PredictInputs[i]))
                = Seen(predict(saved.obj, PredictInputs[i]))

\* a trained object was saved and loaded into a new object, which now predicts
C10_Witness ==
    /\ lastOp.kind = "load" /\ lastOp.ok /\ saved.valid
    /\ saved.obj.model.fitted /\ saved.obj.scaler.fitted
    /\ lastOp.pre.carbon_model = NewModel
    /\ predict(carbon_model, PredictInputs[2]).ok

\* C14: prepare_features returns for the same input the same vector whatever
\* train, save_model and load_model calls came before: in every state of the
\* object it is the vector the newly constructed object returns (the ecosystem
\* encoding is the same after any load).
C14_AssemblerSameAcrossLifecycle ==
    \A i \in PredictIds :
        AssembleOk(PredictInputs[i]) =>
            prepare_features(carbon_model, PredictInputs[i])
                = prepare_features(NewModel, PredictInputs[i])

----------------------------------------------------------------------------
(* Claims about ModelService, checked under Spec *)

\* a fitted network with the fitted scaler of the same training run
CompleteArtifact(m) ==
    /\ m.model.set /\ m.model.fitted
    /\ m.scaler.set /\ m.scaler.fitted
    /\ m.model.run = m.scaler.run

\* the three parts save_model writes for the object m at time now
Persisted(m, now) == [h5 |-> H5Written(m), pkl |-> PklWritten(m), meta |-> MetaWritten(m, now)]

\* C2: a prediction whose request was outstanding while a retrain executed uses
\* the artifact as it was when that retrain started, or a complete new one
\* (fitted network with the fitted scaler of the same run), never a mixture.
C2_OverlappedPredictSeesWholeArtifact ==
    (lastOp.kind = "predict" /\ lastOp.overlapped /\ lastOp.err # "not_loaded") =>
        \/ SameArtifact(carbon_model, lastOp.seen)
        \/ CompleteArtifact(carbon_model)

\* C3: at most one retrain_model is between its train and the end of its save.
C3_OneRetrainAtATime ==
    Cardinality({t \in Slots : tasks[t].kind = "retrain" /\ InFlight(t)}) <= 1

\* a retrain has trained and not yet saved while another retrain request waits
C3_Witness ==
    \E t, u \in Slots :
        /\ tasks[t].kind = "retrain" /\ tasks[t].pc = "save"
        /\ tasks[u].kind = "retrain" /\ tasks[u].pc = "pending"

\* C7: predict_carbon_sequestration and retrain_model called while model_loaded
\* is false or carbon_model is None fail as not loaded and leave carbon_model,
\* model_loaded, last_update and the persisted artifact as they were.
C7_NotLoadedRejected ==
    ( /\ lastOp.kind \in {"predict", "retrain"}
      /\ (~lastOp.pre.model_loaded \/ ~lastOp.pre.carbon_model.exists) ) =>
        /\ ~lastOp.ok
        /\ lastOp.err = "not_loaded"
        /\ Snapshot = lastOp.pre

\* retrain_model was rejected on a service that holds an object but never
\* finished loading
C7_Witness ==
    /\ lastOp.kind = "retrain"
    /\ lastOp.err = "not_loaded"
    /\ lastOp.pre.carbon_model.exists
    /\ ~lastOp.pre.model_loaded

\* C8 (state part): after a retrain_model that returned, the persisted artifact
\* is the one this call trained and last_update is the time of this call; after
\* one that raised, last_update is what it was before.
C8_RetrainOutcome ==
    /\ (lastOp.kind = "retrain" /\ lastOp.ok) =>
          /\ CompleteArtifact(carbon_model)
          /\ carbon_model.model.run = lastOp.time
          /\ disk = Persisted(carbon_model, lastOp.time)
          /\ last_update = lastOp.time
    /\ (lastOp.kind = "retrain" /\ ~lastOp.ok) =>
          last_update = lastOp.pre.last_update

\* C8: the state part in every state, and last_update changes only in the step
\* in which a retrain_model returns successfully (so it is unset until the
\* first such return, and a failure is not retried into a success).
C8_RetrainPersistsAndStamps ==
    /\ []C8_RetrainOutcome
    /\ [][last_update' # last_update =>
            (lastOp'.kind = "retrain" /\ lastOp'.ok /\ last_update' = lastOp'.time)]_vars

\* a retrain returned successfully after an earlier successful one
C8_Witness ==
    /\ lastOp.kind = "retrain" /\ lastOp.ok
    /\ lastOp.pre.last_update # 0
    /\ last_update = lastOp.time

\* C9: after a load_models that returned, model_loaded is true and predict is
\* not refused for want of a model; without the two artifact files the object
\* was trained on the synthetic data in this call and saved, with them it was
\* loaded and nothing was trained or written.
C9_LoadModelsMakesServable ==
    (lastOp.kind = "load_models" /\ lastOp.ok) =>
        /\ model_loaded /\ carbon_model.exists
        /\ \A i \in PredictIds :
              predict(carbon_model, PredictInputs[i]).err # "not_ready"
        /\ (lastOp.branch = "load") = ArtifactFilesExist(lastOp.pre.disk)
        /\ lastOp.branch = "load" =>
              /\ disk = lastOp.pre.disk
              /\ carbon_model.model = disk.h5.net
              /\ carbon_model.scaler = disk.pkl.scaler
        /\ lastOp.branch # "load" =>
              /\ CompleteArtifact(carbon_model)
              /\ carbon_model.model.run = lastOp.time
              /\ disk = Persisted(carbon_model, lastOp.time)

\* load_models returned on an empty directory
C9_Witness ==
    /\ lastOp.kind = "load_models" /\ lastOp.ok
    /\ lastOp.pre.disk = EmptyDisk
    /\ lastOp.branch = "create"
    /\ model_loaded

\* C11: predict_carbon_sequestration, whether it returns or raises, leaves
\* carbon_model (network and scaler), model_loaded, last_update and the
\* persisted artifact as they were and leaves the caller's four mappings as
\* they were passed; when it returns, the result carries the estimate and the
\* confidence of CarbonEstimationModel.predict and an 'analysis' entry.
C11_PredictIsSideEffectFree ==
    lastOp.kind = "predict" =>
        /\ Snapshot = lastOp.pre
        /\ lastOp.inputs = PredictInputs[lastOp.arg]
        /\ lastOp.ok =>
              /\ lastOp.analysis.set
              /\ Seen(predict(carbon_model, PredictInputs[lastOp.arg]))
                    = <<TRUE, "none", lastOp.result.carbon_estimate, lastOp.result.confidence>>

\* a prediction returned for an input whose project mapping has no ecosystem
\* type, on a service that holds a trained object and an artifact
C11_Witness ==
    /\ lastOp.kind = "predict" /\ lastOp.ok
    /\ lastOp.analysis.set
    /\ ~PredictInputs[lastOp.arg].project_data.has_eco
    /\ lastOp.pre.carbon_model.model.fitted
    /\ lastOp.pre.disk # EmptyDisk

\* C16: the carbon estimate in every result predict_carbon_sequestration
\* returns is non-negative.
C16_ReportedEstimateNonNegative ==
    (lastOp.kind = "predict" /\ lastOp.ok) => lastOp.result.carbon_estimate >= 0

----------------------------------------------------------------------------
(* Claims about single calls, checked under CallSpec *)

\* C12: for every input prepare_features returns a vector of exactly 14
\* components none of which is null: with a group absent, empty or null, and
\* with a field key present with a null value.
C12_VectorHas14NonNull ==
    lastOp.kind = "prepare_features" =>
        /\ lastOp.ok
        /\ Len(lastOp.features) = 14
        /\ \A i \in 1..Len(lastOp.features) : lastOp.features[i] # NoneVal

\* the reference assembler: the columns in their order, each with the group it
\* is read from and its default
ReferenceColumns ==
    << <<"satellite_data", "ndvi", 0>>, <<"satellite_data", "evi", 0>>,
       <<"satellite_data", "savi", 0>>, <<"satellite_data", "ndwi", 0>>,
       <<"sensor_data", "temperature", 250>>, <<"sensor_data", "humidity", 700>>,
       <<"sensor_data", "soil_moisture", 5>>, <<"sensor_data", "salinity", 350>>,
       <<"sensor_data", "ph", 70>>, <<"sensor_data", "organic_matter", 20>>,
       <<"field_measurements", "biomass_density", 100>>,
       <<"field_measurements", "canopy_height", 50>>,
       <<"project_data", "area_hectares", 10>> >>

ReferenceCode(data) ==
    LET prj == data.project_data
    IN  IF prj.kind # "dict" \/ ~prj.has_eco THEN 0
        ELSE CASE prj.eco = "mangrove" -> 0
               [] prj.eco = "saltmarsh" -> 1
               [] prj.eco = "seagrass" -> 2
               [] prj.eco = "tidal_marsh" -> 3
               [] OTHER -> 0

Reference(data) ==
    [i \in 1..14 |->
        IF i = 14 THEN ReferenceCode(data)
        ELSE LET c == ReferenceColumns[i]
                 g == data[c[1]]
             IN  IF g.kind = "dict" /\ c[2] \in DOMAIN g.d THEN g.d[c[2]] ELSE c[3]]

\* C13: the vector prepare_features returns is the reference assembler's: the
\* 13 values in the fixed order, each the supplied value when the field is
\* present and its default otherwise, then the ecosystem code (mangrove 0,
\* saltmarsh 1, seagrass 2, tidal_marsh 3; absent or unrecognized gives 0).
C13_EqualsReferenceAssembler ==
    (lastOp.kind = "prepare_features" /\ lastOp.ok) =>
        lastOp.features = Reference(lastOp.inputs)

\* a vector was returned for an unrecognized ecosystem type, with some sensor
\* fields supplied and the other ones defaulted
C13_Witness ==
    /\ lastOp.kind = "prepare_features" /\ lastOp.ok
    /\ lastOp.inputs.project_data.eco = "kelp_forest"
    /\ DOMAIN lastOp.inputs.sensor_data.d = {"humidity", "ph"}
    /\ lastOp.features[5] = 250 /\ lastOp.features[6] = 80
    /\ lastOp.features[14] = 0

\* clamp(x, lo, hi)
Clamp(x, lo, hi) == IF x < lo THEN lo ELSE IF x > hi THEN hi ELSE x

\* C15: for every network output the confidence of predict is within
\* [0.5, 0.95]; for a number e it equals clamp(1 - 0.01*|e|, 0.5, 0.95), so it
\* is the same for e and -e and is no larger for an estimate of larger
\* magnitude.
C15_ConfidenceIsClamp ==
    lastOp.kind = "confidence" =>
        LET e == lastOp.arg
            c == lastOp.result.confidence
        IN  /\ lastOp.result.carbon_estimate = e
            /\ c >= 500 /\ c <= 950
            /\ e # NaN =>
                  /\ c = Clamp(1000 - Abs(e), 500, 950)
                  /\ \A f \in Estimates \ {NaN} :
                        /\ Abs(f) = Abs(e) => Confidence(f) = c
                        /\ Abs(f) >= Abs(e) => Confidence(f) <= c

\* the confidence of a negative estimate between the two clamps
C15_Witness ==
    /\ lastOp.kind = "confidence"
    /\ lastOp.arg = -301
    /\ lastOp.result.confidence = 699

\* the three optional groups of the input, by name
OptionalGroups == {"satellite_data", "sensor_data", "field_measurements"}

\* a group that is absent (or null) or empty
GroupMissing(g) == g.kind # "dict" \/ DOMAIN g.d = {}

IssueOf(name) ==
    CASE name = "satellite_data" -> "No satellite data provided"
      [] name = "sensor_data" -> "No sensor data provided"
      [] name = "field_measurements" -> "No field measurements provided"

ScoredFields(name) ==
    CASE name = "satellite_data" -> {"ndvi", "evi", "savi", "ndwi"}
      [] name = "sensor_data" -> {"temperature", "soil_moisture", "salinity"}
      [] name = "field_measurements" -> {"biomass_density", "canopy_height"}

Occurrences(seq, x) == Cardinality({i \in 1..Len(seq) : seq[i] = x})

\* the (group, sub-field) pairs that earn a point, and the pairs that could,
\* within the groups named
PointsIn(data, names) ==
    {<<n, f>> \in (names \X {"ndvi", "evi", "savi", "ndwi", "temperature", "soil_moisture",
                              "salinity", "biomass_density", "canopy_height"}) :
        /\ f \in ScoredFields(n)
        /\ ~GroupMissing(data[n])
        /\ f \in DOMAIN data[n].d}

PossibleIn(data, names) ==
    {<<n, f>> \in (names \X {"ndvi", "evi", "savi", "ndwi", "temperature", "soil_moisture",
                              "salinity", "biomass_density", "canopy_height"}) :
        f \in ScoredFields(n) /\ ~GroupMissing(data[n])}

\* the percentage, in thousandths, of the points earned within the groups named
PercentIn(data, names) ==
    IF PossibleIn(data, names) = {} THEN 0
    ELSE (Cardinality(PointsIn(data, names)) * 100000) \div Cardinality(PossibleIn(data, names))

\* C17: the issues hold exactly one string for each optional group that is
\* absent or empty and none for a group that is present; with the sensor
\* group omitted they hold "No sensor data provided" and the score is the one
\* of the satellite and field groups alone.
C17_OneIssuePerMissingGroup ==
    lastOp.kind = "_assess_data_quality" =>
        LET d == lastOp.inputs
            dq == lastOp.analysis.data_quality
        IN  /\ \A n \in OptionalGroups :
                  Occurrences(dq.issues, IssueOf(n)) = IF GroupMissing(d[n]) THEN 1 ELSE 0
            /\ Len(dq.issues) = Cardinality({n \in OptionalGroups : GroupMissing(d[n])})
            /\ d.sensor_data.kind = "absent" =>
                  /\ Occurrences(dq.issues, "No sensor data provided") = 1
                  /\ dq.score = PercentIn(d, {"satellite_data", "field_measurements"})

\* the sensor group is omitted, the satellite group is partly filled and the
\* field group is complete: one issue and the score of 5 points out of 6
C17_Witness ==
    /\ lastOp.kind = "_assess_data_quality"
    /\ lastOp.inputs.sensor_data.kind = "absent"
    /\ DOMAIN lastOp.inputs.satellite_data.d = {"ndvi", "evi", "savi"}
    /\ DOMAIN lastOp.inputs.field_measurements.d = {"biomass_density", "canopy_height"}
    /\ lastOp.analysis.data_quality.issues = << "No sensor data provided" >>
    /\ lastOp.analysis.data_quality.score = 83333

\* the input without one group, and without one sub-field of a group
WithoutGroup(data, n) == [data EXCEPT ![n] = AbsentGroup]
WithoutField(data, n, f) ==
    [data EXCEPT ![n] = Dict([k \in (DOMAIN data[n].d) \ {f} |-> data[n].d[k]])]

\* C18: removing a sub-field or a whole group from the input never gives a
\* higher quality score than the input has.
C18_RemovingDataNeverRaisesScore ==
    lastOp.kind = "_assess_data_quality" =>
        LET d == lastOp.inputs
            score == lastOp.analysis.data_quality.score
        IN  \A n \in OptionalGroups :
                /\ _assess_data_quality(WithoutGroup(d, n)).score <= score
                /\ d[n].kind = "dict" =>
                      \A f \in DOMAIN d[n].d :
                          _assess_data_quality(WithoutField(d, n, f)).score <= score

\* C19: _assess_data_quality returns for every input, with a score within
\* 0..100 that is 0 when the three groups are absent; the level is 'high'
\* exactly when the score is above 80, 'medium' exactly when it is above 60 and
\* at most 80, 'low' otherwise; the score is the percentage of points, one per
\* present scored sub-field (4 satellite, 3 sensor, 2 field, at most 9).
C19_ScoreRangeAndLevel ==
    lastOp.kind = "_assess_data_quality" =>
        LET d == lastOp.inputs
            dq == lastOp.analysis.data_quality
        IN  /\ lastOp.ok
            /\ dq.score >= 0 /\ dq.score <= 100000
            /\ (\A n \in OptionalGroups : d[n].kind = "absent") => dq.score = 0
            /\ (dq.level = "high") = (dq.score > 80000)
            /\ (dq.level = "medium") = (dq.score > 60000 /\ dq.score <= 80000)
            /\ (dq.level = "low") = (dq.score <= 60000)
            /\ QualityScore(d) = Cardinality(PointsIn(d, OptionalGroups))
            /\ Cardinality(PointsIn(d, OptionalGroups)) <= 9
            /\ Cardinality(PossibleIn(d, OptionalGroups)) <= 9
            /\ dq.score = PercentIn(d, OptionalGroups)

\* a score of exactly 80 (4 of the 5 points of sensor and field data), which
\* is 'medium'
C19_Witness ==
    /\ lastOp.kind = "_assess_data_quality"
    /\ lastOp.analysis.data_quality.score = 80000
    /\ lastOp.analysis.data_quality.level = "medium"
    /\ QualityScore(lastOp.inputs) = 4

\* the items of a recommendation list in their fixed order: data completeness,
\* low confidence, the ecosystem note, the small-area caveat
RecommendationOrder ==
    << {"Consider collecting more comprehensive data to improve prediction accuracy"},
       {"Prediction confidence is low. Consider additional field measurements"},
       {"Mangrove ecosystems typically have high carbon sequestration potential",
        "Seagrass meadows are important carbon sinks but require careful monitoring"},
       {"Small project areas may have higher uncertainty in carbon estimates"} >>

ItemOf(r) == CHOOSE k \in 1..4 : r \in RecommendationOrder[k]

HasItem(recs, k) == \E i \in 1..Len(recs) : recs[i] \in RecommendationOrder[k]

\* C20: the list _generate_recommendations returns consists of items of the
\* fixed order, each at most once and none before an earlier one; the
\* data-completeness item is there exactly when the quality score is below
\* 60, the low-confidence item exactly when the confidence is below 0.7, the
\* ecosystem note exactly when ecosystem_type is mangrove or seagrass (the
\* note of that type), and the small-area caveat exactly when area_hectares
\* is below 1; a project that has no ecosystem_type is neither mangrove nor
\* seagrass, and one that has no area_hectares has no area below 1.
C20_RecommendationsInFixedOrder ==
    (lastOp.kind = "_generate_recommendations" /\ lastOp.ok) =>
        LET d == lastOp.inputs
            prj == d.project_data
            recs == lastOp.analysis.recommendations
            eco == IF prj.kind = "dict" /\ prj.has_eco THEN prj.eco ELSE "none given"
        IN  /\ \A i \in 1..Len(recs) : \E k \in 1..4 : recs[i] \in RecommendationOrder[k]
            /\ \A i, j \in 1..Len(recs) : i < j => ItemOf(recs[i]) < ItemOf(recs[j])
            /\ HasItem(recs, 1) = (_assess_data_quality(d).score < 60000)
            /\ HasItem(recs, 2) = (Confidence(lastOp.arg) < 700)
            /\ HasItem(recs, 3) = (eco \in {"mangrove", "seagrass"})
            /\ eco = "mangrove" =>
                  Occurrences(recs, "Mangrove ecosystems typically have high carbon sequestration potential") = 1
            /\ eco = "seagrass" =>
                  Occurrences(recs, "Seagrass meadows are important carbon sinks but require careful monitoring") = 1
            /\ HasItem(recs, 4) = (/\ prj.kind = "dict"
                                    /\ "area_hectares" \in DOMAIN prj.d
                                    /\ prj.d["area_hectares"] < 10)

\* C28: _generate_recommendations decides on the project fields
\* prepare_features assembles: without area_hectares (assembled as 1.0)
\* there is no small-area caveat, and otherwise the caveat is there exactly
\* when the assembled area is below 1; without ecosystem_type (assembled as
\* mangrove) the mangrove note is there.
C28_RecommendationsUseAssemblerDefaults ==
    (lastOp.kind = "_generate_recommendations" /\ lastOp.ok) =>
        LET d == lastOp.inputs
            prj == d.project_data
            recs == lastOp.analysis.recommendations
            assembled == prepare_features(NewModel, d)
        IN  /\ HasItem(recs, 4) = (assembled[13] < 10)
            /\ ~(prj.kind = "dict" /\ "area_hectares" \in DOMAIN prj.d) => ~HasItem(recs, 4)
            /\ ~(prj.kind = "dict" /\ prj.has_eco) =>
                  Occurrences(recs, "Mangrove ecosystems typically have high carbon sequestration potential") = 1

----------------------------------------------------------------------------
(* Claims about the vegetation indices, checked under IndexSpec *)

IndexRange(kind) ==
    IF kind = "calculate_gci" THEN [lo |-> -1000, hi |-> 10000] ELSE [lo |-> -1000, hi |-> 1000]

\* C21: for all band values, those that make a denominator zero included,
\* each index function returns a finite value within its clamp range
\* ([-1, 1] for NDVI, EVI, SAVI, NDWI and [-1, 10] for GCI); for red = 0.1
\* and nir = 0.5 NDVI is (0.5 - 0.1) / (0.5 + 0.1), which the clamp leaves.
C21_IndicesFiniteAndClamped ==
    lastOp.kind \in {"calculate_ndvi", "calculate_evi", "calculate_savi", "calculate_ndwi",
                     "calculate_gci"} =>
        /\ lastOp.ok
        /\ lastOp.index # NaN
        /\ lastOp.index >= IndexRange(lastOp.kind).lo
        /\ lastOp.index <= IndexRange(lastOp.kind).hi
        /\ (lastOp.kind = "calculate_ndvi" /\ lastOp.bands.red = 10 /\ lastOp.bands.nir = 50) =>
              lastOp.index = ((50 - 10) * 1000) \div (50 + 10)

\* EVI was computed for nir = 0.5, red = 0, blue = 0.2, where
\* nir + 6 * red - 7.5 * blue + 1 is zero, and came out as the upper clamp
C21_Witness ==
    /\ lastOp.kind = "calculate_evi"
    /\ lastOp.bands.nir = 50 /\ lastOp.bands.red = 0 /\ lastOp.bands.blue = 20
    /\ lastOp.index = 1000

----------------------------------------------------------------------------
(* Further claims about ModelService, checked under Spec *)

\* C22: health_check returns in every state of the service, with a record
\* that has status, model_loaded, last_update and model_info (the current
\* values); the model_info of a held object is get_model_info's, which is the
\* 'not_loaded' sentinel exactly when the object holds no network and
\* otherwise carries the object's feature columns and ecosystem table.
C22_HealthAndInfoNeverRaise ==
    lastOp.kind = "health_check" =>
        LET h == lastOp.health
            info == h.model_info
        IN  /\ lastOp.ok
            /\ {"status", "model_loaded", "last_update", "model_info"} \subseteq h.keys
            /\ h.model_loaded = model_loaded
            /\ h.last_update = last_update
            /\ ~carbon_model.exists => info = NoInfo
            /\ carbon_model.exists =>
                  /\ ~info.raised
                  /\ (info.status = "not_loaded") = ~carbon_model.model.set
                  /\ info.status = "not_loaded" => info.keys = {"status"}
                  /\ carbon_model.model.set =>
                        /\ info.status = "loaded"
                        /\ info.feature_columns = carbon_model.feature_columns
                        /\ info.ecosystem_types = carbon_model.ecosystem_types

\* health_check after a load_models that failed on a broken model file: the
\* service holds a new object without a network
C22_Witness ==
    /\ lastOp.kind = "health_check"
    /\ carbon_model.exists /\ ~carbon_model.model.set
    /\ lastOp.health.model_info.status = "not_loaded"
    /\ disk.h5.state = "corrupt"

\* C25: a prediction request that is waiting while a retrain is between its
\* first statement and its return can be run by the loop at once; it does
\* not have to wait for the retrain to return.
C25_RetrainDoesNotBlockPredict ==
    \A t \in Slots :
        (tasks[t].kind = "predict" /\ tasks[t].pc = "pending" /\ RetrainInFlight)
            => ENABLED PredictRun(t)

\* C26: between the calls of the service, model_loaded implies that the
\* service holds an object whose network and scaler are fitted and come from
\* the same training run.
C26_LoadedImpliesUsableArtifact ==
    (LoopFree /\ model_loaded) =>
        /\ carbon_model.exists
        /\ CompleteArtifact(carbon_model)

\* C27: between the calls of the service, when model_loaded holds, a new
\* process that loads what is stored under model_path holds the network and
\* the scaler this one serves.
C27_PersistedIsServed ==
    (LoopFree /\ model_loaded) =>
        LET fresh == load_model(NewModel, disk)
        IN  /\ ArtifactFilesExist(disk)
            /\ fresh.ok
            /\ fresh.m.model = carbon_model.model
            /\ fresh.m.scaler = carbon_model.scaler

----------------------------------------------------------------------------
(* Further claims about CarbonEstimationModel, checked under ModelSpec *)

\* C23: a train call on a list of fewer than two samples fails, and the
\* network and the scaler held before the call are the ones held after it.
C23_TrainRejectsSmallLists ==
    (lastOp.kind = "train" /\ Len(Datasets[lastOp.arg]) < 2) =>
        /\ ~lastOp.ok
        /\ carbon_model.model = lastOp.pre.carbon_model.model
        /\ carbon_model.scaler = lastOp.pre.carbon_model.scaler

\* C24: in a train call that completed, no sample the scaler was fitted on is
\* a sample the fit validated on, with validation_data given or with the
\* internal split.
C24_ScalerFitDisjointFromValidation ==
    (lastOp.kind = "train" /\ lastOp.ok) =>
        lastOp.fit_on \cap lastOp.val_on = {}

----------------------------------------------------------------------------
(* Claims about the batch route, checked under BatchSpec *)

\* C29: while the loop runs the results list has one entry for each request
\* taken so far, in request order, each with status success or error and
\* being what a single estimate of that request gives; the dict returned has
\* one entry per request, and successful + failed = total_requests = the
\* number of requests.
C29_BatchIsolatesFailures ==
    lastOp.kind = "estimate_carbon_batch" =>
        LET b == lastOp.batch
        IN  /\ Len(b.results) = b.i
            /\ \A k \in 1..Len(b.results) :
                  /\ b.results[k].project_id = b.requests[k].project_id
                  /\ b.results[k].status \in {"success", "error"}
                  /\ \E gee \in GeeOutcomes :
                        LET r == estimate_carbon_sequestration(model_loaded, carbon_model,
                                                               b.requests[k], gee)
                        IN  /\ (b.results[k].status = "success") = r.ok
                            /\ b.results[k].result = r.response
            /\ b.pc = "returned" =>
                  /\ Len(b.results) = Len(b.requests)
                  /\ b.total_requests = Len(b.requests)
                  /\ b.successful + b.failed = b.total_requests

\* a batch of three requests has returned; the first request failed and the
\* two after it were processed
C29_Witness ==
    /\ lastOp.kind = "estimate_carbon_batch"
    /\ lastOp.batch.pc = "returned"
    /\ Len(lastOp.batch.requests) = 3
    /\ Len(lastOp.batch.results) = 3
    /\ lastOp.batch.results[1].status = "error"
    /\ lastOp.batch.failed = 3

----------------------------------------------------------------------------
(* Claims about get_historical_data, checked under HistorySpec *)

\* C30: for every start_date, end_date and interval_days the loop makes at
\* most one iteration per day between start_date and end_date; every period
\* it visits ends after it starts and is at most interval_days long, the
\* first one starts at start_date, each one starts where the one before it
\* ended, and the last one of a call that returned ends at end_date; the
\* periods whose retrieval failed are left out of historical_data and the
\* loop goes on after them.
C30_HistoryTerminates ==
    lastOp.kind = "get_historical_data" =>
        LET h == lastOp.history
            n == Len(h.periods)
        IN  /\ n <= Max(0, h.end_date - h.start_date)
            /\ \A k \in 1..n :
                  /\ h.periods[k][1] < h.periods[k][2]
                  /\ h.periods[k][2] - h.periods[k][1] <= h.interval_days
                  /\ h.periods[k][1] = IF k = 1 THEN h.start_date ELSE h.periods[k - 1][2]
            /\ (n > 0) => h.current_date = h.periods[n][2]
            /\ Len(h.historical_data) <= n
            /\ (h.pc = "returned" /\ h.start_date < h.end_date) =>
                  /\ n > 0
                  /\ h.periods[n][2] = h.end_date

====
